---- MODULE Spec2Model ----
(***************************************************************************)
(* A model of the search pipeline of searxng-rs: the result container      *)
(* (src/results/container.rs, src/results/types.rs), the search executor   *)
(* (src/search/executor.rs, src/search/models.rs), the plugin registry     *)
(* (src/plugins/registry.rs), the query parser (src/query/mod.rs), the     *)
(* engine registry (src/engines/registry.rs) and the search handler        *)
(* (src/web/handlers.rs).                                                  *)
(*                                                                         *)
(* Strings that the code inspects are sequences of tokens.  A URL is a     *)
(* sequence over the tokens "https://", "http://", "www.", "/" and host    *)
(* or path words; no concatenation of the other tokens contains one of     *)
(* the three prefixes, so str::replace acts token by token.  A query is a  *)
(* sequence of characters.                                                 *)
(*                                                                         *)
(* Scores are f64 in the code.  The model computes them exactly, as the    *)
(* integer ScoreScale * score, where every position divides ScoreScale.    *)
(***************************************************************************)
EXTENDS Integers, Sequences, FiniteSets, TLC

VARIABLES
    engine_weights,   \* ResultContainer.engine_weights: engine name -> weight
    results_map,      \* ResultContainer.results_map: dedup key -> Result
    inserted,         \* history: the dedup keys in the order of their first insertion
    unresponsive,     \* ResultContainer.unresponsive_engines (a Vec)
    timings,          \* ResultContainer.timings (a Vec)
    redirect_url,     \* ResultContainer.redirect_url
    ordered,          \* the Vec last returned by get_ordered_results, or NotRead
    added,            \* history: the arguments of the add_result calls of the container's direct caller
    registry,         \* EngineRegistry: registered engine name -> its configuration
    query,            \* the SearchQuery handed to Search::execute
    engine_results,   \* what each engine's response() parses out of its HTTP response
    exec_pc,          \* where Search::execute stands
    tasks,            \* the search_engine futures that execute created, in order
    plugins,          \* PluginRegistry.plugins (a Vec), each plugin by what its hooks return
    enabled,          \* PluginRegistry.enabled: the ids of the enabled plugins
    calls,            \* history: the plugins whose hook the registry called, in order
    hook_result,      \* what the last PluginRegistry hook returned, or NotRun
    page_args,        \* the arguments of the last get_results_page call
    page,             \* what the last get_results_page call returned, or that it panicked
    raw,              \* the raw query text handed to ParsedQuery::parse
    parsed,           \* the ParsedQuery it returned, or NotParsed
    infoboxes,        \* ResultContainer.infoboxes (a Vec)
    infobox_adds,     \* history: the arguments of the add_infobox calls, in order
    http_response,    \* where the search handler stands and the Response it returned
    timeout_args,     \* the timeouts a search_engine future starts from
    engine_timeout,   \* the Duration it computed from them, or that it panicked
    registry_engines,     \* EngineRegistry.engines: name -> the engine registered last
    registry_categories,  \* EngineRegistry.categories: category -> Vec of names
    registrations         \* history: the engines handed to register, in order

searchVars == <<engine_weights, results_map, inserted, unresponsive, timings, redirect_url,
                ordered, added, registry, query, engine_results, exec_pc, tasks>>

pluginVars == <<plugins, enabled, calls, hook_result>>

pageVars == <<page_args, page>>

parserVars == <<raw, parsed>>

infoboxVars == <<infoboxes, infobox_adds>>

handlerVars == <<http_response>>

timeoutVars == <<timeout_args, engine_timeout>>

registryVars == <<registry_engines, registry_categories, registrations>>

restVars == <<infoboxVars, handlerVars, timeoutVars, registryVars>>

\* The state of the parts around the executor and the container.
frontVars == <<pluginVars, pageVars, parserVars, restVars>>

vars == <<searchVars, frontVars>>

containerVars == <<results_map, inserted, unresponsive, timings, redirect_url>>

---------------------------------------------------------------------------
(* Bounds and input sets *)

MaxAdds == 3          \* add_result calls explored on a container
MaxRefs == 2          \* engine refs of a SearchQuery

ENGINES == {"google", "bing"}
POSITIONS == {1, 2}
WEIGHTS == {-1, 1, 2}

URL_A1 == <<"https://", "a.com">>
URL_A2 == <<"http://", "www.", "A.com", "/">>
URL_B == <<"https://", "b.com">>
URLS == {URL_A1, URL_A2, URL_B}

NoContent == "None"
NoCategory == "None"
NotRead == "NotRead"
NotRun == [hook |-> "none"]
NotParsed == [query |-> <<"?">>]
NoArgs == [page |-> 0, per_page |-> 0]
EmptyMap == <<>>

---------------------------------------------------------------------------
(* Pure helpers *)

RECURSIVE Lcm(_, _)
Lcm(S, m) == IF \A p \in S : m % p = 0 THEN m ELSE Lcm(S, m + 1)

\* The common denominator of the reciprocal ranks 1/p.
ScoreScale == Lcm(POSITIONS, 1)

RECURSIVE RemoveAll(_, _)
RemoveAll(s, tok) ==
    IF s = <<>> THEN <<>>
    ELSE IF Head(s) = tok THEN RemoveAll(Tail(s), tok)
    ELSE <<Head(s)>> \o RemoveAll(Tail(s), tok)

RECURSIVE TrimEndMatches(_, _)
TrimEndMatches(s, tok) ==
    IF s # <<>> /\ s[Len(s)] = tok THEN TrimEndMatches(SubSeq(s, 1, Len(s) - 1), tok)
    ELSE s

LowerTok(t) ==
    CASE t = "A.com" -> "a.com"
      [] t = "B.com" -> "b.com"
      [] t = "HTTPS://" -> "https://"
      [] t = "HTTP://" -> "http://"
      [] t = "WWW." -> "www."
      [] OTHER -> t

ToLowercase(s) == [i \in 1..Len(s) |-> LowerTok(s[i])]

UrlHash(url) ==
    ToLowercase(
        RemoveAll(RemoveAll(RemoveAll(TrimEndMatches(url, "/"), "https://"), "http://"), "www."))

\* Result::new(url, title, engine): the title is not modelled apart from the url.
ResultNew(url, engine) ==
    [url |-> url, content |-> NoContent, engine |-> engine, engines |-> {engine},
     positions |-> <<>>, score |-> 0, category |-> NoCategory]

WithPosition(r, position) == [r EXCEPT !.positions = Append(@, position)]

WithContent(r, content) == [r EXCEPT !.content = content]

\* A Result as the engines build it: Result::new(..).with_position(p).
EngineResult(url, engine, position) == WithPosition(ResultNew(url, engine), position)

Merge_NoEngines(self, other) ==
    [self EXCEPT !.positions = @ \o other.positions,
                 !.content = IF @ = NoContent /\ other.content # NoContent
                             THEN other.content ELSE @]

Merge_NoPositions(self, other) ==
    [self EXCEPT !.engines = @ \cup other.engines,
                 !.content = IF @ = NoContent /\ other.content # NoContent
                             THEN other.content ELSE @]

Merge_LastContent(self, other) ==
    [self EXCEPT !.engines = @ \cup other.engines,
                 !.positions = @ \o other.positions,
                 !.content = IF other.content # NoContent THEN other.content ELSE @]

\* Result::merge
Merge(self, other) ==
    [self EXCEPT !.engines = @ \cup other.engines,
                 !.positions = @ \o other.positions,
                 !.content = IF @ = NoContent /\ other.content # NoContent
                             THEN other.content ELSE @]

RECURSIVE WeightProduct(_, _)
WeightProduct(engines, weights) ==
    IF engines = {} THEN 1
    ELSE LET e == CHOOSE x \in engines : TRUE
         IN (IF e \in DOMAIN weights THEN weights[e] ELSE 1)
            * WeightProduct(engines \ {e}, weights)

RECURSIVE SumOver(_, _)
SumOver(positions, weight) ==
    IF positions = <<>> THEN 0
    ELSE (weight * ScoreScale) \div Head(positions) + SumOver(Tail(positions), weight)

ScoreOf_NoBoost(r, weights) == SumOver(r.positions, WeightProduct(r.engines, weights))

\* Result::calculate_score, times ScoreScale.
ScoreOf(r, weights) ==
    SumOver(r.positions, WeightProduct(r.engines, weights) * Cardinality(r.engines))

CalculateScore(r, weights) == [r EXCEPT !.score = ScoreOf(r, weights)]

\* Where slice::sort_by (stable) with the comparator b.score.partial_cmp(a.score)
\* puts r when the elements of sorted came before it.
RECURSIVE InsertDesc(_, _)
InsertDesc(sorted, r) ==
    IF sorted = <<>> THEN <<r>>
    ELSE IF Head(sorted).score >= r.score THEN <<Head(sorted)>> \o InsertDesc(Tail(sorted), r)
    ELSE <<r>> \o sorted

RECURSIVE SortByScoreDesc(_)
SortByScoreDesc(s) ==
    IF s = <<>> THEN <<>>
    ELSE InsertDesc(SortByScoreDesc(SubSeq(s, 1, Len(s) - 1)), s[Len(s)])

\* The orders in which HashMap::values may iterate over the keys.
IterationOrders(keys) ==
    {f \in [1..Cardinality(keys) -> keys] : \A i, j \in 1..Cardinality(keys) : f[i] = f[j] => i = j}

\* get_ordered_results when the map iterates in the order iter.
OrderedFrom(map, weights, iter) ==
    SortByScoreDesc([i \in 1..Len(iter) |-> CalculateScore(map[iter[i]], weights)])

\* results_map after add_result(result).
MapAdd(map, result) ==
    LET url_hash == UrlHash(result.url)
    IN IF url_hash \in DOMAIN map
       THEN [map EXCEPT ![url_hash] = Merge(@, result)]
       ELSE [k \in DOMAIN map \cup {url_hash} |-> IF k = url_hash THEN result ELSE map[k]]

InsertedAdd(order, map, result) ==
    IF UrlHash(result.url) \in DOMAIN map THEN order ELSE Append(order, UrlHash(result.url))

---------------------------------------------------------------------------
(* The container on its own: a caller adds engine-built results, then reads *)

\* No plugin is registered and no hook has run.
NoPlugins ==
    /\ plugins = <<>>
    /\ enabled = {}
    /\ calls = <<>>
    /\ hook_result = NotRun

NoPage ==
    /\ page_args = NoArgs
    /\ page = [panic |-> FALSE, results |-> <<>>]

NoParse ==
    /\ raw = <<>>
    /\ parsed = NotParsed

NoInfoboxes ==
    /\ infoboxes = <<>>
    /\ infobox_adds = <<>>

\* No request is being handled.
NoRequest == http_response = [pc |-> "none", kind |-> "none", answer |-> [plugin |-> 0]]

\* No search_engine future has computed a timeout.
NoTimeouts ==
    /\ timeout_args = [timeout_limit |-> <<>>, config |-> <<>>, engine |-> <<>>]
    /\ engine_timeout = [computed |-> FALSE, panic |-> FALSE, secs |-> 0]

\* EngineRegistry::new()
NoRegistry ==
    /\ registry_engines = EmptyMap
    /\ registry_categories = EmptyMap
    /\ registrations = <<>>

NoRest == NoInfoboxes /\ NoRequest /\ NoTimeouts /\ NoRegistry

WeightMaps == {EmptyMap} \cup [ENGINES -> WEIGHTS]

IdleExecutor ==
    /\ registry = EmptyMap
    /\ query = [query |-> <<>>, external_bang |-> "None", engine_refs |-> <<>>]
    /\ engine_results = EmptyMap
    /\ exec_pc = "idle"
    /\ tasks = <<>>

EmptyContainer ==
    /\ results_map = EmptyMap
    /\ inserted = <<>>
    /\ unresponsive = <<>>
    /\ timings = <<>>
    /\ redirect_url = <<>>          \* None
    /\ ordered = NotRead

\* ResultContainer::new() or ResultContainer::with_weights(weights)
InitContainer ==
    /\ engine_weights \in WeightMaps
    /\ EmptyContainer
    /\ added = <<>>
    /\ IdleExecutor
    /\ NoPlugins /\ NoPage /\ NoParse /\ NoRest

AddResult ==
    /\ exec_pc = "idle"
    /\ ordered = NotRead
    /\ Len(added) < MaxAdds
    /\ \E url \in URLS, engine \in ENGINES, position \in POSITIONS :
         LET result == EngineResult(url, engine, position)
         IN /\ results_map' = MapAdd(results_map, result)
            /\ inserted' = InsertedAdd(inserted, results_map, result)
            /\ added' = Append(added, result)
    /\ UNCHANGED <<engine_weights, unresponsive, timings, redirect_url, ordered,
                   registry, query, engine_results, exec_pc, tasks>>
    /\ UNCHANGED frontVars

GetOrderedResults ==
    /\ exec_pc \in {"idle", "returned"}
    /\ ordered = NotRead
    /\ \E iter \in IterationOrders(DOMAIN results_map) :
         ordered' = OrderedFrom(results_map, engine_weights, iter)
    /\ UNCHANGED <<engine_weights, results_map, inserted, unresponsive, timings,
                   redirect_url, added, registry, query, engine_results, exec_pc, tasks>>
    /\ UNCHANGED frontVars

NextContainer == AddResult \/ GetOrderedResults

SpecContainer == InitContainer /\ [][NextContainer]_vars

---------------------------------------------------------------------------
(* Search::execute and the search_engine futures it joins *)

NoBang == "None"
NoRedirect == <<>>                     \* no redirect URL: a URL is never empty
UNLOADED == "unloaded"                 \* an engine name the registry does not hold
REGISTRIES == {[google |-> [weight |-> 1], bing |-> [weight |-> 1]],
               [google |-> [weight |-> 1], bing |-> [weight |-> 2]]}
QUERIES == {<<>>, <<" ">>, <<"a", " ", "b">>}
BANGS == {NoBang, "g", "wa"}
REFS == {[name |-> "google", category |-> "general"],
         [name |-> "bing", category |-> "images"],
         [name |-> UNLOADED, category |-> "general"]}
RESULT_LISTS == {<<URL_A1>>, <<URL_B>>, <<URL_B, URL_A2>>}
\* The markers (of those the executor looks for) that the text of an HTTP error holds.
HTTP_ERROR_TEXTS == {{}, {"timeout"}, {"429"}, {"403"}, {"timeout", "429"}}
PARSE_ERROR_TEXTS == {{}, {"CAPTCHA"}}

SeqsUpTo(S, n) == UNION {[1..k -> S] : k \in 0..n}

\* EngineRegistry::get
RegistryGet(name) == name \in DOMAIN registry

\* EngineRegistry::get_weight
GetWeight(name) == IF name \in DOMAIN registry THEN registry[name].weight ELSE 1

\* The weights map execute builds from the engine refs.
QueryWeights(refs) ==
    [n \in {refs[i].name : i \in 1..Len(refs)} |-> GetWeight(n)]

\* str::trim().is_empty()
IsEmpty_NoTrim(q) == q = <<>>

\* SearchQuery::is_empty
IsEmpty(q) == \A i \in 1..Len(q) : q[i] = " "

\* urlencoding::encode, character by character
UrlEncode(q) == [i \in 1..Len(q) |-> IF q[i] = " " THEN "%20" ELSE q[i]]

\* Search::get_external_bang_url; NoRedirect stands for None.
GetExternalBangUrl(bang, q) ==
    LET base ==
        CASE bang = "g" -> "https://www.google.com/search?q="
          [] bang = "yt" -> "https://www.youtube.com/results?search_query="
          [] bang \in {"w", "wp"} -> "https://en.wikipedia.org/wiki/Special:Search?search="
          [] bang = "gh" -> "https://github.com/search?q="
          [] bang = "so" -> "https://stackoverflow.com/search?q="
          [] bang = "ddg" -> "https://duckduckgo.com/?q="
          [] bang = "amazon" -> "https://www.amazon.com/s?k="
          [] bang = "imdb" -> "https://www.imdb.com/find?q="
          [] OTHER -> ""
    IN IF base = "" THEN NoRedirect ELSE <<base>> \o UrlEncode(q)

RECURSIVE Dispatch_FirstOnly(_)
Dispatch_FirstOnly(refs) ==
    IF refs = <<>> THEN <<>>
    ELSE IF RegistryGet(Head(refs).name)
    THEN <<[name |-> Head(refs).name, category |-> Head(refs).category,
            pc |-> "created", outcome |-> "pending"]>>
    ELSE Dispatch_FirstOnly(Tail(refs))

\* The futures execute collects: one per engine ref whose engine the registry holds.
RECURSIVE Dispatch(_)
Dispatch(refs) ==
    IF refs = <<>> THEN <<>>
    ELSE (IF RegistryGet(Head(refs).name)
          THEN <<[name |-> Head(refs).name, category |-> Head(refs).category,
                  pc |-> "created", outcome |-> "pending"]>>
          ELSE <<>>) \o Dispatch(Tail(refs))

\* The classification of a failed HTTP call by the text of its error.
ClassifyHttpError(text) ==
    IF "timeout" \in text THEN "Timeout"
    ELSE IF "429" \in text THEN "TooManyRequests"
    ELSE IF "403" \in text THEN "AccessDenied"
    ELSE "NetworkError"

\* The classification of a failed response() by the text of its error.
ClassifyParseError(text) == IF "CAPTCHA" \in text THEN "Captcha" ELSE "ParseError"

\* The Results of one engine, as its response() returns them and the executor tags them.
TaggedResults(t) ==
    [i \in 1..Len(engine_results[t.name]) |->
        [EngineResult(engine_results[t.name][i], t.name, i) EXCEPT !.category = t.category]]

ExtendMap_FirstOnly(map, results) ==
    IF results = <<>> THEN map ELSE MapAdd(map, Head(results))

RECURSIVE ExtendMap(_, _)
ExtendMap(map, results) ==
    IF results = <<>> THEN map ELSE ExtendMap(MapAdd(map, Head(results)), Tail(results))

RECURSIVE ExtendInserted(_, _, _)
ExtendInserted(order, map, results) ==
    IF results = <<>> THEN order
    ELSE ExtendInserted(InsertedAdd(order, map, Head(results)),
                        MapAdd(map, Head(results)), Tail(results))

Terminal_OnlySuccess(t) == t.pc = "done" /\ t.outcome = "success"

\* A search_engine future has completed, with whatever outcome.
Terminal(t) == t.pc = "done"

BuildFailed_StillSubmits(t) == [t EXCEPT !.pc = "awaiting", !.outcome = "build_failed"]

\* engine.request(&params) returned Err: the future records Unknown and returns.
BuildFailed(t) == [t EXCEPT !.pc = "done", !.outcome = "build_failed"]

TimedOut_StillAwaiting(t) == [t EXCEPT !.outcome = "deadline"]

\* tokio::time::timeout returns Err(Elapsed) and drops the HTTP call it wrapped:
\* the future goes on to its last arm and completes.
TimedOut(t) == [t EXCEPT !.pc = "done", !.outcome = "deadline"]

Expire_CancelsAll(ts, i) ==
    [j \in DOMAIN ts |-> IF ts[j].pc = "awaiting" THEN TimedOut(ts[j]) ELSE ts[j]]

\* Each search_engine future wraps its own HTTP call in its own timeout: the
\* deadline of future i ends future i.
Expire(ts, i) == [ts EXCEPT ![i] = TimedOut(@)]

JoinAllReady_NoWait(ts) == TRUE

\* join_all(futures).await is ready when every future has completed.
JoinAllReady(ts) == \A i \in 1..Len(ts) : Terminal(ts[i])

Init ==
    /\ registry \in REGISTRIES
    /\ query \in [query : QUERIES, external_bang : BANGS, engine_refs : SeqsUpTo(REFS, MaxRefs)]
    /\ engine_results \in [ENGINES -> RESULT_LISTS]
    /\ exec_pc = "start"
    /\ tasks = <<>>
    /\ engine_weights = EmptyMap
    /\ EmptyContainer
    /\ added = <<>>
    /\ NoPlugins /\ NoPage /\ NoParse /\ NoRest

\* execute, external bang resolved: set the redirect and return.
ExecuteRedirect ==
    /\ exec_pc = "start"
    /\ query.external_bang # NoBang
    /\ GetExternalBangUrl(query.external_bang, query.query) # NoRedirect
    /\ engine_weights' = QueryWeights(query.engine_refs)
    /\ redirect_url' = GetExternalBangUrl(query.external_bang, query.query)
    /\ exec_pc' = "returned"
    /\ UNCHANGED <<results_map, inserted, unresponsive, timings, ordered, added,
                   registry, query, engine_results, tasks>>
    /\ UNCHANGED frontVars

\* execute, no redirect and an empty query: return the empty container.
ExecuteEmpty ==
    /\ exec_pc = "start"
    /\ \/ query.external_bang = NoBang
       \/ GetExternalBangUrl(query.external_bang, query.query) = NoRedirect
    /\ IsEmpty(query.query)
    /\ engine_weights' = QueryWeights(query.engine_refs)
    /\ exec_pc' = "returned"
    /\ UNCHANGED <<containerVars, ordered, added, registry, query, engine_results, tasks>>
    /\ UNCHANGED frontVars

\* execute, otherwise: create the futures and await join_all.
ExecuteDispatch ==
    /\ exec_pc = "start"
    /\ \/ query.external_bang = NoBang
       \/ GetExternalBangUrl(query.external_bang, query.query) = NoRedirect
    /\ ~IsEmpty(query.query)
    /\ engine_weights' = QueryWeights(query.engine_refs)
    /\ tasks' = Dispatch(query.engine_refs)
    /\ exec_pc' = "joining"
    /\ UNCHANGED <<containerVars, ordered, added, registry, query, engine_results>>
    /\ UNCHANGED frontVars

\* search_engine, first poll, request() fails: record Unknown and finish.
BuildFails(i) ==
    /\ exec_pc = "joining"
    /\ tasks[i].pc = "created"
    /\ \A j \in 1..(i - 1) : tasks[j].pc # "created"
    /\ unresponsive' = Append(unresponsive, [name |-> tasks[i].name, error |-> "Unknown"])
    /\ tasks' = [tasks EXCEPT ![i] = BuildFailed(@)]
    /\ UNCHANGED <<engine_weights, results_map, inserted, timings, redirect_url, ordered,
                   added, registry, query, engine_results, exec_pc>>
    /\ UNCHANGED frontVars

\* search_engine, first poll, request() succeeds: submit the HTTP call and await it.
SubmitRequest(i) ==
    /\ exec_pc = "joining"
    /\ tasks[i].pc = "created"
    /\ \A j \in 1..(i - 1) : tasks[j].pc # "created"
    /\ tasks' = [tasks EXCEPT ![i].pc = "awaiting"]
    /\ UNCHANGED <<engine_weights, containerVars, ordered, added, registry, query,
                   engine_results, exec_pc>>
    /\ UNCHANGED frontVars

\* The deadline elapses before the HTTP call completes.
DeadlineElapsed(i) ==
    /\ exec_pc = "joining"
    /\ tasks[i].pc = "awaiting"
    /\ unresponsive' = Append(unresponsive, [name |-> tasks[i].name, error |-> "Timeout"])
    /\ tasks' = Expire(tasks, i)
    /\ UNCHANGED <<engine_weights, results_map, inserted, timings, redirect_url, ordered,
                   added, registry, query, engine_results, exec_pc>>
    /\ UNCHANGED frontVars

\* The HTTP call fails.
HttpFails(i) ==
    /\ exec_pc = "joining"
    /\ tasks[i].pc = "awaiting"
    /\ \E text \in HTTP_ERROR_TEXTS :
         unresponsive' = Append(unresponsive,
                                [name |-> tasks[i].name, error |-> ClassifyHttpError(text)])
    /\ tasks' = [tasks EXCEPT ![i].pc = "done", ![i].outcome = "http_error"]
    /\ UNCHANGED <<engine_weights, results_map, inserted, timings, redirect_url, ordered,
                   added, registry, query, engine_results, exec_pc>>
    /\ UNCHANGED frontVars

\* The HTTP call returns a response that response() cannot parse.
ParseFails(i) ==
    /\ exec_pc = "joining"
    /\ tasks[i].pc = "awaiting"
    /\ \E text \in PARSE_ERROR_TEXTS :
         unresponsive' = Append(unresponsive,
                                [name |-> tasks[i].name, error |-> ClassifyParseError(text)])
    /\ tasks' = [tasks EXCEPT ![i].pc = "done", ![i].outcome = "parse_error"]
    /\ UNCHANGED <<engine_weights, results_map, inserted, timings, redirect_url, ordered,
                   added, registry, query, engine_results, exec_pc>>
    /\ UNCHANGED frontVars

\* The HTTP call returns a response that response() parses: add its results and
\* the timing.  The future does not yield in between.
EngineSucceeds(i) ==
    /\ exec_pc = "joining"
    /\ tasks[i].pc = "awaiting"
    /\ results_map' = ExtendMap(results_map, TaggedResults(tasks[i]))
    /\ inserted' = ExtendInserted(inserted, results_map, TaggedResults(tasks[i]))
    /\ timings' = Append(timings, [engine |-> tasks[i].name,
                                   result_count |-> Len(engine_results[tasks[i].name])])
    /\ tasks' = [tasks EXCEPT ![i].pc = "done", ![i].outcome = "success"]
    /\ UNCHANGED <<engine_weights, unresponsive, redirect_url, ordered, added, registry,
                   query, engine_results, exec_pc>>
    /\ UNCHANGED frontVars

\* join_all completes and execute returns the container.
ExecuteReturn ==
    /\ exec_pc = "joining"
    /\ JoinAllReady(tasks)
    /\ exec_pc' = "returned"
    /\ UNCHANGED <<engine_weights, containerVars, ordered, added, registry, query,
                   engine_results, tasks>>
    /\ UNCHANGED frontVars

SearchEngine(i) ==
    \/ BuildFails(i)
    \/ SubmitRequest(i)
    \/ DeadlineElapsed(i)
    \/ HttpFails(i)
    \/ ParseFails(i)
    \/ EngineSucceeds(i)

Next ==
    \/ ExecuteRedirect
    \/ ExecuteEmpty
    \/ ExecuteDispatch
    \/ \E i \in 1..Len(tasks) : SearchEngine(i)
    \/ ExecuteReturn
    \/ GetOrderedResults

Spec == Init /\ [][Next]_vars

---------------------------------------------------------------------------
(* Claims about the container *)

\* C1: when two Results A and B whose URLs have the same dedup key are added to an
\* empty container, it holds exactly one entry, with engines {A.engine, B.engine}
\* and positions A.positions followed by B.positions.
C1_MergeTwo ==
    (Len(added) = 2 /\ UrlHash(added[1].url) = UrlHash(added[2].url)) =>
        /\ DOMAIN results_map = {UrlHash(added[1].url)}
        /\ results_map[UrlHash(added[1].url)].engines = {added[1].engine, added[2].engine}
        /\ results_map[UrlHash(added[1].url)].positions
             = added[1].positions \o added[2].positions

C1_Witness ==
    /\ Len(added) = 2
    /\ added[1].url # added[2].url
    /\ added[1].engine # added[2].engine
    /\ UrlHash(added[1].url) = UrlHash(added[2].url)
    /\ Cardinality(DOMAIN results_map) = 1

\* C7: get_ordered_results returns every stored result, by score descending, and
\* results of equal score in the order in which their keys were first inserted.
FirstInsertion(key) == CHOOSE i \in 1..Len(inserted) : inserted[i] = key

C7_OrderedByScoreThenInsertion ==
    ordered # NotRead =>
        /\ Len(ordered) = Cardinality(DOMAIN results_map)
        /\ {UrlHash(ordered[i].url) : i \in 1..Len(ordered)} = DOMAIN results_map
        /\ \A i, j \in 1..Len(ordered) : i < j =>
              \/ ordered[i].score > ordered[j].score
              \/ /\ ordered[i].score = ordered[j].score
                 /\ FirstInsertion(UrlHash(ordered[i].url))
                      < FirstInsertion(UrlHash(ordered[j].url))

\* C8: on read, a result's score is (the product of the weights of its engines) x
\* |engines| x (the sum of 1/p over its positions); engines without an entry in
\* engine_weights count as weight 1.  With two engines of weight 1 at positions p1
\* and p2 the score is 2 * (1/p1 + 1/p2).
RECURSIVE ProductOfWeights(_)
ProductOfWeights(es) ==
    IF es = {} THEN 1
    ELSE LET e == CHOOSE x \in es : TRUE
         IN (IF e \in DOMAIN engine_weights THEN engine_weights[e] ELSE 1)
            * ProductOfWeights(es \ {e})

RECURSIVE ReciprocalSum(_, _)
ReciprocalSum(ps, i) ==
    IF i > Len(ps) THEN 0 ELSE (ScoreScale \div ps[i]) + ReciprocalSum(ps, i + 1)

C8_ScoreFormula ==
    ordered # NotRead =>
        \A i \in 1..Len(ordered) :
            LET r == ordered[i]
            IN /\ r.score = ProductOfWeights(r.engines) * Cardinality(r.engines)
                              * ReciprocalSum(r.positions, 1)
               /\ (/\ Cardinality(r.engines) = 2
                   /\ Len(r.positions) = 2
                   /\ \A e \in r.engines : e \in DOMAIN engine_weights => engine_weights[e] = 1)
                  => r.score * r.positions[1] * r.positions[2]
                      = 2 * ScoreScale * (r.positions[1] + r.positions[2])

C8_Witness ==
    /\ ordered # NotRead
    /\ \E i \in 1..Len(ordered) :
         /\ Cardinality(ordered[i].engines) = 2
         /\ ordered[i].positions = <<1, 2>>
         /\ engine_weights # EmptyMap
         /\ \A e \in ENGINES : engine_weights[e] = 1
         /\ ordered[i].score = 3 * ScoreScale

\* C9: for any engine weights the configuration can supply, replacing one position
\* of a result by a larger one never increases the score calculate_score computes.
C9_ScoreMonotone ==
    \A k \in DOMAIN results_map :
        \A i \in 1..Len(results_map[k].positions), p \in POSITIONS :
            p > results_map[k].positions[i] =>
                ScoreOf([results_map[k] EXCEPT !.positions[i] = p], engine_weights)
                    <= ScoreOf(results_map[k], engine_weights)

\* C10: every stored Result has as many engines as positions, and its engine is one
\* of its engines.
C10_EnginesMatchPositions ==
    \A k \in DOMAIN results_map :
        /\ Cardinality(results_map[k].engines) = Len(results_map[k].positions)
        /\ results_map[k].engine \in results_map[k].engines

---------------------------------------------------------------------------
(* Claims about the executor *)

Succeeded == {i \in 1..Len(tasks) : tasks[i].outcome = "success"}
Failed == {i \in 1..Len(tasks) : tasks[i].outcome \notin {"pending", "success"}}
EntriesOf(name) == {n \in 1..Len(unresponsive) : unresponsive[n].name = name}

RECURSIVE ReferenceMap(_)
ReferenceMap(n) ==
    IF n = 0 THEN EmptyMap
    ELSE IF n \in Succeeded THEN ExtendMap(ReferenceMap(n - 1), TaggedResults(tasks[n]))
    ELSE ReferenceMap(n - 1)

\* The lists get_ordered_results can return in that run.
ReferenceLists ==
    {OrderedFrom(ReferenceMap(Len(tasks)), engine_weights, iter) :
        iter \in IterationOrders(DOMAIN ReferenceMap(Len(tasks)))}

\* C3 as stated: the ranked list read after execute does not depend on the order in
\* which the engine tasks completed: it is a list that the run completing them in
\* the order of the engine refs returns.
C3_SameRankedList ==
    (exec_pc = "returned" /\ ordered # NotRead) => ordered \in ReferenceLists

\* What the engines that succeeded returned for a dedup key: <<task, position>>.
Hits(key) ==
    {h \in Succeeded \X POSITIONS :
        /\ h[2] <= Len(engine_results[tasks[h[1]].name])
        /\ UrlHash(engine_results[tasks[h[1]].name][h[2]]) = key}

HitKeys ==
    UNION {{UrlHash(engine_results[tasks[i].name][j]) :
                j \in 1..Len(engine_results[tasks[i].name])} : i \in Succeeded}

RECURSIVE HitScore(_)
HitScore(hits) ==
    IF hits = {} THEN 0
    ELSE LET h == CHOOSE x \in hits : TRUE
         IN (ScoreScale \div h[2]) + HitScore(hits \ {h})

\* C3 as amended: whatever the completion order, the list read after execute holds
\* the same dedup keys, each once, each with the same engines, the same positions up
\* to their order and the same score, in non-increasing score order.
C3_SameKeysEnginesScores ==
    (exec_pc = "returned" /\ ordered # NotRead) =>
        /\ Len(ordered) = Cardinality(HitKeys)
        /\ {UrlHash(ordered[n].url) : n \in 1..Len(ordered)} = HitKeys
        /\ \A n \in 1..Len(ordered) :
             LET r == ordered[n]
                 hits == Hits(UrlHash(r.url))
                 engines == {tasks[h[1]].name : h \in hits}
             IN /\ r.engines = engines
                /\ Len(r.positions) = Cardinality(hits)
                /\ \A p \in POSITIONS :
                     Cardinality({m \in 1..Len(r.positions) : r.positions[m] = p})
                         = Cardinality({h \in hits : h[2] = p})
                /\ r.score = ProductOfWeights(engines) * Cardinality(engines) * HitScore(hits)
        /\ \A n \in 1..(Len(ordered) - 1) : ordered[n].score >= ordered[n + 1].score

\* Two engines succeeded, the second engine ref first, and share a result.
C3_Witness ==
    /\ exec_pc = "returned"
    /\ ordered # NotRead
    /\ Len(tasks) = 2
    /\ Succeeded = {1, 2}
    /\ tasks[1].name # tasks[2].name
    /\ timings[1].engine = tasks[2].name
    /\ Len(ordered) = 2
    /\ \E n \in 1..Len(ordered) : Cardinality(ordered[n].engines) = 2
    /\ ordered \notin ReferenceLists

\* C4: execute returns only once every engine task it dispatched is terminal, and
\* after the return no task changes the container.
C4_JoinBarrier ==
    /\ [](exec_pc = "returned" => \A i \in 1..Len(tasks) : Terminal(tasks[i]))
    /\ [][exec_pc = "returned" => UNCHANGED <<containerVars, tasks>>]_vars

C4_Witness ==
    /\ exec_pc = "returned"
    /\ Len(tasks) = 2
    /\ tasks[1].outcome = "deadline"
    /\ tasks[2].outcome = "success"
    /\ results_map # EmptyMap

\* C5: when external_bang is set, to any value, execute invokes no engine and
\* returns a container with the redirect set and no results.
C5_BangShortCircuit ==
    query.external_bang # NoBang =>
        /\ tasks = <<>>
        /\ results_map = EmptyMap
        /\ exec_pc = "returned" => redirect_url # NoRedirect

\* C6: without an external bang, a query that is empty or only whitespace invokes
\* no engine and leaves the container without results, unresponsive entries and
\* timings, whatever the engine refs.
C6_EmptyQuery ==
    (query.external_bang = NoBang /\ \A n \in 1..Len(query.query) : query.query[n] = " ") =>
        /\ tasks = <<>>
        /\ results_map = EmptyMap
        /\ unresponsive = <<>>
        /\ timings = <<>>
        /\ redirect_url = NoRedirect

C6_Witness ==
    /\ exec_pc = "returned"
    /\ query.external_bang = NoBang
    /\ query.query = <<" ">>
    /\ \E n \in 1..Len(query.engine_refs) : RegistryGet(query.engine_refs[n].name)
    /\ results_map = EmptyMap

---------------------------------------------------------------------------
(* The dedup key: two results with arbitrary URLs are added to a container *)

MaxUrlLen == 3        \* tokens of a result URL

URL_TOKENS == {"https://", "HTTPS://", "www.", "/", "a.com"}
DEDUP_URLS == SeqsUpTo(URL_TOKENS, MaxUrlLen)

\* add_result for the first and the second result of a container.
AddUrl ==
    /\ exec_pc = "idle"
    /\ Len(added) < 2
    /\ \E url \in DEDUP_URLS :
         LET engine == IF added = <<>> THEN "google" ELSE "bing"
             result == EngineResult(url, engine, Len(added) + 1)
         IN /\ results_map' = MapAdd(results_map, result)
            /\ inserted' = InsertedAdd(inserted, results_map, result)
            /\ added' = Append(added, result)
    /\ UNCHANGED <<engine_weights, unresponsive, timings, redirect_url, ordered,
                   registry, query, engine_results, exec_pc, tasks>>
    /\ UNCHANGED frontVars

InitDedup ==
    /\ engine_weights = EmptyMap
    /\ EmptyContainer
    /\ added = <<>>
    /\ IdleExecutor
    /\ NoPlugins /\ NoPage /\ NoParse /\ NoRest

NextDedup == AddUrl

SpecDedup == InitDedup /\ [][NextDedup]_vars

StripLeading(s, toks) == IF s # <<>> /\ Head(s) \in toks THEN Tail(s) ELSE s

StripOneTrailing(s, tok) ==
    IF s # <<>> /\ s[Len(s)] = tok THEN SubSeq(s, 1, Len(s) - 1) ELSE s

\* The normalization the dedup key is said to be: lowercase, leading scheme
\* stripped, leading "www." stripped, one trailing "/" stripped.
NormalizedUrl(url) ==
    StripOneTrailing(
        StripLeading(StripLeading(ToLowercase(url), {"https://", "http://"}), {"www."}),
        "/")

\* C11: two results are merged by add_result if and only if their URLs are equal
\* after lowercasing, stripping a leading scheme, a leading "www." and exactly one
\* trailing "/"; a "www." or scheme elsewhere and further trailing slashes
\* distinguish URLs.
C11_MergedIffNormalizedEqual ==
    Len(added) = 2 =>
        ((Cardinality(DOMAIN results_map) = 1)
            <=> (NormalizedUrl(added[1].url) = NormalizedUrl(added[2].url)))

---------------------------------------------------------------------------
(* Claims about the outcomes of an engine task *)

TimingsOf(name) == {n \in 1..Len(timings) : timings[n].engine = name}
TerminalOf(name) == {i \in 1..Len(tasks) : Terminal(tasks[i]) /\ tasks[i].name = name}

\* C12: every dispatched engine task has recorded a Timing for its engine by the
\* time it terminates, whatever its outcome: an engine has at least as many
\* timings as it has terminated tasks.
C12_TimingAlwaysRecorded ==
    \A name \in ENGINES : Cardinality(TimingsOf(name)) >= Cardinality(TerminalOf(name))

DeadlineTasks(name) ==
    {i \in 1..Len(tasks) : tasks[i].name = name /\ tasks[i].outcome = "deadline"}

\* The engines all of whose calls so far ended by the deadline.
OnlyTimedOut ==
    {name \in ENGINES :
        /\ DeadlineTasks(name) # {}
        /\ \A i \in 1..Len(tasks) :
             tasks[i].name = name => tasks[i].outcome \in {"pending", "deadline"}}

TimedOutTasks == {i \in 1..Len(tasks) : tasks[i].outcome = "deadline"}

\* C14: the deadlines of the engines are independent.  The step in which engine A
\* hits its deadline changes no peer's task and stores nothing; and in a run
\* where some engine timed out, every peer that succeeded has all its results and
\* its timing in the container and every peer that failed has its own error
\* recorded.
C14_DeadlineIsolation ==
    /\ [][\A i \in 1..Len(tasks) :
            (tasks[i].outcome # "deadline" /\ tasks'[i].outcome = "deadline") =>
                /\ \A j \in 1..Len(tasks) : j # i => tasks'[j] = tasks[j]
                /\ UNCHANGED <<results_map, timings>>]_vars
    /\ [](TimedOutTasks # {} =>
            /\ \A j \in Succeeded :
                 /\ \A n \in 1..Len(engine_results[tasks[j].name]) :
                      LET key == UrlHash(engine_results[tasks[j].name][n])
                      IN /\ key \in DOMAIN results_map
                         /\ tasks[j].name \in results_map[key].engines
                 /\ \E n \in TimingsOf(tasks[j].name) :
                      timings[n].result_count = Len(engine_results[tasks[j].name])
            /\ \A name \in ENGINES :
                 Cardinality(EntriesOf(name))
                     = Cardinality({j \in Failed : tasks[j].name = name}))

\* Engine A timed out while its peer B went on to merge two results.
C14_Witness ==
    /\ exec_pc = "joining"
    /\ Len(tasks) = 2
    /\ tasks[1].name # tasks[2].name
    /\ tasks[1].outcome = "deadline"
    /\ tasks[2].outcome = "success"
    /\ Len(engine_results[tasks[2].name]) = 2
    /\ Cardinality(DOMAIN results_map) = 2

---------------------------------------------------------------------------
(* One engine call in detail: the HTTP response has a status and a body *)

STATUSES == {200, 403, 429}
\* A response: its status and whether its body is a CAPTCHA page (otherwise it is
\* the result page of the engine).
RESPONSES == [status : STATUSES, captcha : BOOLEAN]

\* EngineResponse::is_success
IsSuccess(response) == response.status >= 200 /\ response.status < 300

\* Engine::response of Google and of Bing: Ok with the results parsed, or Err
\* with the markers its text holds.  HttpClient::execute returns any status as Ok.
EngineResponseOf(name, response) ==
    IF ~IsSuccess(response)
    THEN [ok |-> FALSE, text |-> {IF response.status = 429 THEN "429" ELSE "403"}]
    ELSE IF name = "google" /\ response.captcha
    THEN [ok |-> FALSE, text |-> {"CAPTCHA"}]
    ELSE [ok |-> TRUE, results |-> IF response.captcha THEN <<>> ELSE engine_results[name]]

\* The Results response() returned, as the executor tags them.
Tagged(t, urls) ==
    [i \in 1..Len(urls) |-> [EngineResult(urls[i], t.name, i) EXCEPT !.category = t.category]]

\* The HTTP call returns a response within the deadline: response() is applied
\* to it, and its results and the timing, or its error, are recorded.
HttpResponds(i) ==
    /\ exec_pc = "joining"
    /\ tasks[i].pc = "awaiting"
    /\ \E response \in RESPONSES :
         LET r == EngineResponseOf(tasks[i].name, response)
             done == [name |-> tasks[i].name, category |-> tasks[i].category,
                      pc |-> "done", status |-> response.status,
                      outcome |-> IF r.ok THEN "success" ELSE "parse_error"]
         IN /\ tasks' = [tasks EXCEPT ![i] = done]
            /\ IF r.ok
               THEN /\ results_map' = ExtendMap(results_map, Tagged(tasks[i], r.results))
                    /\ inserted' = ExtendInserted(inserted, results_map,
                                                  Tagged(tasks[i], r.results))
                    /\ timings' = Append(timings, [engine |-> tasks[i].name,
                                                   result_count |-> Len(r.results)])
                    /\ UNCHANGED unresponsive
               ELSE /\ unresponsive' = Append(unresponsive,
                                              [name |-> tasks[i].name,
                                               error |-> ClassifyParseError(r.text)])
                    /\ UNCHANGED <<results_map, inserted, timings>>
    /\ UNCHANGED <<engine_weights, redirect_url, ordered, added, registry, query,
                   engine_results, exec_pc>>
    /\ UNCHANGED frontVars

\* A query for one engine.
InitCall ==
    /\ registry \in REGISTRIES
    /\ query \in [query : {<<"a", " ", "b">>}, external_bang : {NoBang},
                  engine_refs : [1..1 -> REFS]]
    /\ engine_results \in [ENGINES -> RESULT_LISTS]
    /\ exec_pc = "start"
    /\ tasks = <<>>
    /\ engine_weights = EmptyMap
    /\ EmptyContainer
    /\ added = <<>>
    /\ NoPlugins /\ NoPage /\ NoParse /\ NoRest

SearchEngineCall(i) ==
    \/ BuildFails(i)
    \/ SubmitRequest(i)
    \/ DeadlineElapsed(i)
    \/ HttpFails(i)
    \/ HttpResponds(i)

NextCall ==
    \/ ExecuteDispatch
    \/ \E i \in 1..Len(tasks) : SearchEngineCall(i)
    \/ ExecuteReturn

SpecCall == InitCall /\ [][NextCall]_vars

\* C15: an engine whose HTTP call ended with status 429 is recorded unresponsive
\* with error TooManyRequests, and one whose call ended with status 403 with
\* error AccessDenied.
C15_StatusClassified ==
    \A i \in 1..Len(tasks) :
        (Terminal(tasks[i]) /\ "status" \in DOMAIN tasks[i]) =>
            /\ tasks[i].status = 429 =>
                 \E n \in EntriesOf(tasks[i].name) : unresponsive[n].error = "TooManyRequests"
            /\ tasks[i].status = 403 =>
                 \E n \in EntriesOf(tasks[i].name) : unresponsive[n].error = "AccessDenied"

---------------------------------------------------------------------------
(* The plugin registry and its hooks *)

MaxPlugins == 3       \* plugins registered

VERDICTS == {"Continue", "Answer", "Skip", "ModifyQuery"}
\* A plugin, by what its hooks return: the PreSearchResult of pre_search, the
\* bool of on_result, and info().default_on.
BEHAVIOURS == [pre : VERDICTS, keep : BOOLEAN, default_on : BOOLEAN]
\* An Option<Answer>, by the plugin whose answer it is; 0 stands for None.
NoAnswer == [plugin |-> 0]
MODIFIED_QUERY == <<"m">>              \* the query a ModifyQuery verdict carries

\* The Vec PluginRegistry::register builds from the plugins b; the id of a plugin
\* is its place in the registration order.
Registered(b) ==
    [i \in DOMAIN b |-> [id |-> i, pre |-> b[i].pre, keep |-> b[i].keep,
                         default_on |-> b[i].default_on]]

\* PluginRegistry::is_enabled
IsEnabled(id) == id \in enabled

AllPlugins_IgnoringEnabled(ps) == ps

\* PluginRegistry::enabled_plugins
EnabledPlugins(ps) == SelectSeq(ps, LAMBDA p : IsEnabled(p.id))

\* The loop of PluginRegistry::pre_search over the plugins ps, the query text
\* being q and log the plugins called so far.
RECURSIVE PreSearchLoop(_, _, _)
PreSearchLoop(ps, q, log) ==
    IF ps = <<>> THEN [ret |-> NoAnswer, query |-> q, calls |-> log]
    ELSE LET p == Head(ps)
             called == Append(log, p.id)
         IN CASE p.pre = "Continue" -> PreSearchLoop(Tail(ps), q, called)
              [] p.pre = "Answer" -> [ret |-> [plugin |-> p.id], query |-> q, calls |-> called]
              [] p.pre = "Skip" -> [ret |-> NoAnswer, query |-> q, calls |-> called]
              [] p.pre = "ModifyQuery" -> PreSearchLoop(Tail(ps), MODIFIED_QUERY, called)

\* The loop of PluginRegistry::on_result.
RECURSIVE OnResultLoop(_, _)
OnResultLoop(ps, log) ==
    IF ps = <<>> THEN [ret |-> TRUE, calls |-> log]
    ELSE IF ~Head(ps).keep THEN [ret |-> FALSE, calls |-> Append(log, Head(ps).id)]
    ELSE OnResultLoop(Tail(ps), Append(log, Head(ps).id))

InitPlugins ==
    /\ \E k \in 0..MaxPlugins : \E b \in [1..k -> BEHAVIOURS] : plugins = Registered(b)
    /\ enabled = {plugins[i].id : i \in {j \in 1..Len(plugins) : plugins[j].default_on}}
    /\ calls = <<>>
    /\ hook_result = NotRun
    /\ engine_weights = EmptyMap
    /\ EmptyContainer
    /\ added = <<>>
    /\ registry = EmptyMap
    /\ query = [query |-> <<"a">>, external_bang |-> NoBang, engine_refs |-> <<>>]
    /\ engine_results = EmptyMap
    /\ exec_pc = "idle"
    /\ tasks = <<>>
    /\ NoPage /\ NoParse /\ NoRest

\* PluginRegistry::pre_search(&mut query)
PreSearch ==
    /\ hook_result = NotRun
    /\ LET run == PreSearchLoop(EnabledPlugins(plugins), query.query, <<>>)
       IN /\ hook_result' = [hook |-> "pre_search", ret |-> run.ret]
          /\ calls' = run.calls
          /\ query' = [query EXCEPT !.query = run.query]
    /\ UNCHANGED <<engine_weights, containerVars, ordered, added, registry, engine_results,
                   exec_pc, tasks, plugins, enabled, pageVars, parserVars, restVars>>

\* PluginRegistry::on_result(&query, &mut result)
OnResult ==
    /\ hook_result = NotRun
    /\ LET run == OnResultLoop(EnabledPlugins(plugins), <<>>)
       IN /\ hook_result' = [hook |-> "on_result", ret |-> run.ret]
          /\ calls' = run.calls
    /\ UNCHANGED <<searchVars, plugins, enabled, pageVars, parserVars, restVars>>

NextPlugins == PreSearch \/ OnResult

SpecPlugins == InitPlugins /\ [][NextPlugins]_vars

\* The first enabled plugin whose pre_search verdict is not Continue, or 0.
FirstVerdict ==
    LET stops == {i \in 1..Len(plugins) : IsEnabled(plugins[i].id) /\ plugins[i].pre # "Continue"}
    IN IF stops = {} THEN 0 ELSE CHOOSE i \in stops : \A j \in stops : i <= j

\* C16: pre_search calls the enabled plugins in registration order, and the first
\* plugin whose verdict is Answer, Skip or ModifyQuery ends the pipeline: no plugin
\* registered after it is called.
C16_FirstVerdictEnds ==
    hook_result.hook = "pre_search" =>
        /\ \A n \in 1..(Len(calls) - 1) : calls[n] < calls[n + 1]
        /\ \A n \in 1..Len(calls) : IsEnabled(calls[n])
        /\ FirstVerdict # 0 => \A n \in 1..Len(calls) : calls[n] <= FirstVerdict
        /\ \A i \in 1..Len(plugins) :
             (IsEnabled(plugins[i].id) /\ (FirstVerdict = 0 \/ i <= FirstVerdict))
                 => \E n \in 1..Len(calls) : calls[n] = i

\* C17: on_result returns true exactly when the on_result of every enabled plugin
\* returns true; a plugin that is not enabled is never called.
C17_OnResultAll ==
    hook_result.hook = "on_result" =>
        /\ hook_result.ret
             <=> \A i \in 1..Len(plugins) : IsEnabled(plugins[i].id) => plugins[i].keep
        /\ \A n \in 1..Len(calls) : IsEnabled(calls[n])

\* Two enabled plugins kept the result and a disabled one that would have
\* dropped it was not asked.
C17_Witness ==
    /\ hook_result.hook = "on_result"
    /\ hook_result.ret
    /\ Len(calls) = 2
    /\ \E i \in 1..Len(plugins) : ~IsEnabled(plugins[i].id) /\ ~plugins[i].keep

---------------------------------------------------------------------------
(* Pagination: get_results_page on a container that a caller has filled *)

\* usize arithmetic is modelled at a reduced width: values are taken modulo
\* UsizeModulus.
UsizeModulus == 16
MaxPerPage == 2

UsizeMax == UsizeModulus - 1
PAGES == {1, 2, 3, (UsizeModulus \div 2) + 1, UsizeMax}
PER_PAGES == 1..MaxPerPage
BUILDS == {"debug", "release"}         \* with and without overflow checks

\* usize::saturating_sub
SaturatingSub(a, b) == IF a >= b THEN a - b ELSE 0

\* Iterator::skip(n) and Iterator::take(n), collected
Skip(s, n) == SubSeq(s, n + 1, Len(s))
Take(s, n) == SubSeq(s, 1, IF n < Len(s) THEN n ELSE Len(s))

InitPage ==
    /\ engine_weights = EmptyMap
    /\ EmptyContainer
    /\ added = <<>>
    /\ IdleExecutor
    /\ NoPlugins /\ NoPage /\ NoParse /\ NoRest

\* ResultContainer::get_results_page(n, per_page).  The product is a usize
\* multiplication: on overflow a build with overflow checks panics and one
\* without wraps.
GetResultsPage ==
    /\ exec_pc = "idle"
    /\ page_args = NoArgs
    /\ \E n \in PAGES, per_page \in PER_PAGES, build \in BUILDS,
          iter \in IterationOrders(DOMAIN results_map) :
         LET results == OrderedFrom(results_map, engine_weights, iter)
             product == SaturatingSub(n, 1) * per_page
             start == product % UsizeModulus
         IN /\ page_args' = [page |-> n, per_page |-> per_page]
            /\ ordered' = results
            /\ page' = IF product > UsizeMax /\ build = "debug"
                       THEN [panic |-> TRUE, results |-> <<>>]
                       ELSE [panic |-> FALSE, results |-> Take(Skip(results, start), per_page)]
    /\ UNCHANGED <<engine_weights, containerVars, added, registry, query, engine_results,
                   exec_pc, tasks, pluginVars, parserVars, restVars>>

NextPage == AddResult \/ GetResultsPage

SpecPage == InitPage /\ [][NextPage]_vars

\* C18: for n >= 1 and per_page >= 1, get_results_page(n, per_page) does not
\* panic and returns the elements of get_ordered_results at the indices from
\* (n-1)*per_page up to, not including, min(n*per_page, size), in that order: the
\* empty list when the page is past the end, however large n is.
C18_PageIsSlice ==
    page_args # NoArgs =>
        LET first == (page_args.page - 1) * page_args.per_page
            last == IF page_args.page * page_args.per_page < Len(ordered)
                    THEN page_args.page * page_args.per_page ELSE Len(ordered)
        IN /\ ~page.panic
           /\ page.results = SubSeq(ordered, first + 1, last)

---------------------------------------------------------------------------
(* The query parser.  Query text is a sequence of characters. *)

MaxTokens == 3        \* pieces a raw query is put together from

LOWER == {"a", "b", "c", "d", "e", "f", "g", "h", "i", "j", "k", "l", "m", "n", "o", "p", "q", "r", "s", "t", "u", "v", "w", "x", "y", "z"}
UPPER == {"A", "B", "C", "D", "E", "F", "G", "H", "I", "J", "K", "L", "M", "N", "O", "P", "Q", "R", "S", "T", "U", "V", "W", "X", "Y", "Z"}
DIGITS == {"0", "1", "2", "3", "4", "5", "6", "7", "8", "9"}
UPPER_SEQ == <<"A", "B", "C", "D", "E", "F", "G", "H", "I", "J", "K", "L", "M", "N", "O", "P", "Q", "R", "S", "T", "U", "V", "W", "X", "Y", "Z">>
LOWER_SEQ == <<"a", "b", "c", "d", "e", "f", "g", "h", "i", "j", "k", "l", "m", "n", "o", "p", "q", "r", "s", "t", "u", "v", "w", "x", "y", "z">>

\* The pieces of the raw queries explored: they are concatenated as they are, so
\* that modifiers also occur next to each other and inside words.
RAW_PIECES == {<<" ">>,
               <<"a">>,
               <<"!", "X">>,
               <<"!", "d", "a", "y">>,
               <<"!", "w", "e", "e", "k">>,
               <<":", "e", "n">>,
               <<"<", "3">>,
               <<"!", "i", "t">>,
               <<"!", "g">>,
               <<"!", "w", "a">>}

RECURSIVE Concat(_)
Concat(ss) == IF ss = <<>> THEN <<>> ELSE Head(ss) \o Concat(Tail(ss))

RAW_QUERIES == {Concat(ps) : ps \in SeqsUpTo(RAW_PIECES, MaxTokens)}

\* char::is_whitespace, \s
IsSpace(c) == c = " "
\* \w
WORD_CHARS == LOWER \cup UPPER \cup DIGITS \cup {"_"}

LowerChar(c) ==
    IF c \in UPPER THEN LOWER_SEQ[CHOOSE i \in 1..Len(UPPER_SEQ) : UPPER_SEQ[i] = c] ELSE c

\* str::to_lowercase
StrToLowercase(s) == [i \in 1..Len(s) |-> LowerChar(s[i])]

\* pat occurs in s at index i
OccursAt(s, pat, i) == i + Len(pat) - 1 <= Len(s) /\ SubSeq(s, i, i + Len(pat) - 1) = pat

\* str::contains
StrContains(s, pat) == \E i \in 1..Len(s) : OccursAt(s, pat, i)

\* str::starts_with
StartsWith(s, pat) == OccursAt(s, pat, 1)

\* str::replace: every non-overlapping occurrence, from the left
RECURSIVE StrReplace(_, _, _)
StrReplace(s, pat, rep) ==
    IF s = <<>> THEN <<>>
    ELSE IF OccursAt(s, pat, 1)
    THEN rep \o StrReplace(SubSeq(s, Len(pat) + 1, Len(s)), pat, rep)
    ELSE <<Head(s)>> \o StrReplace(Tail(s), pat, rep)

\* str::trim_start_matches
RECURSIVE TrimStartMatches(_, _)
TrimStartMatches(s, pat) ==
    IF OccursAt(s, pat, 1) THEN TrimStartMatches(SubSeq(s, Len(pat) + 1, Len(s)), pat) ELSE s

\* The length of the longest run of characters of class at the start of s.
RECURSIVE RunLength(_, _)
RunLength(s, class) ==
    IF s # <<>> /\ Head(s) \in class THEN 1 + RunLength(Tail(s), class) ELSE 0

\* (?:\s|$) after the first n characters of s: 0 when it does not match, else
\* the length of the match up to and including it.
Boundary(s, n) ==
    IF n = Len(s) THEN n ELSE IF IsSpace(s[n + 1]) THEN n + 1 ELSE 0

\* :([a-z]{2}(?:-[A-Z]{2})?)(?:\s|$) at the start of s: [len, cap], len 0 for no match.
LangMatch(s) ==
    IF Len(s) >= 3 /\ s[1] = ":" /\ s[2] \in LOWER /\ s[3] \in LOWER
    THEN IF Len(s) >= 6 /\ s[4] = "-" /\ s[5] \in UPPER /\ s[6] \in UPPER
            /\ Boundary(s, 6) # 0
         THEN [len |-> Boundary(s, 6), cap |-> SubSeq(s, 2, 6)]
         ELSE [len |-> Boundary(s, 3), cap |-> SubSeq(s, 2, 3)]
    ELSE [len |-> 0, cap |-> <<>>]

\* <(\d+(?:\.\d+)?)(ms)?(?:\s|$) at the start of s: [len, cap, ms].
TimeoutMatch(s) ==
    IF s # <<>> /\ s[1] = "<" /\ RunLength(Tail(s), DIGITS) > 0
    THEN LET whole == 1 + RunLength(Tail(s), DIGITS)
             frac == IF whole < Len(s) /\ s[whole + 1] = "."
                     THEN RunLength(SubSeq(s, whole + 2, Len(s)), DIGITS) ELSE 0
             num == IF frac > 0 THEN whole + 1 + frac ELSE whole
             ms == OccursAt(s, <<"m", "s">>, num + 1) /\ Boundary(s, num + 2) # 0
         IN IF ms THEN [len |-> Boundary(s, num + 2), cap |-> SubSeq(s, 2, num), ms |-> TRUE]
            ELSE [len |-> Boundary(s, num), cap |-> SubSeq(s, 2, num), ms |-> FALSE]
    ELSE [len |-> 0, cap |-> <<>>, ms |-> FALSE]

\* !(\w+)(?:\s|$) at the start of s: [len, cap].
BangMatch(s) ==
    IF s # <<>> /\ s[1] = "!" /\ RunLength(Tail(s), WORD_CHARS) > 0
    THEN LET n == 1 + RunLength(Tail(s), WORD_CHARS)
         IN [len |-> Boundary(s, n), cap |-> SubSeq(s, 2, n)]
    ELSE [len |-> 0, cap |-> <<>>]

\* captures_iter and replace_all(.., " ") of the three expressions: the matches
\* from the left, not overlapping; [text, caps].
RECURSIVE LangScan(_)
LangScan(s) ==
    IF s = <<>> THEN [text |-> <<>>, caps |-> <<>>]
    ELSE LET m == LangMatch(s)
         IN IF m.len > 0
            THEN LET r == LangScan(SubSeq(s, m.len + 1, Len(s)))
                 IN [text |-> <<" ">> \o r.text, caps |-> <<m.cap>> \o r.caps]
            ELSE LET r == LangScan(Tail(s))
                 IN [text |-> <<Head(s)>> \o r.text, caps |-> r.caps]

RECURSIVE TimeoutScan(_)
TimeoutScan(s) ==
    IF s = <<>> THEN [text |-> <<>>, caps |-> <<>>]
    ELSE LET m == TimeoutMatch(s)
         IN IF m.len > 0
            THEN LET r == TimeoutScan(SubSeq(s, m.len + 1, Len(s)))
                 IN [text |-> <<" ">> \o r.text, caps |-> <<[value |-> m.cap, ms |-> m.ms]>> \o r.caps]
            ELSE LET r == TimeoutScan(Tail(s))
                 IN [text |-> <<Head(s)>> \o r.text, caps |-> r.caps]

RECURSIVE BangScan(_)
BangScan(s) ==
    IF s = <<>> THEN [text |-> <<>>, caps |-> <<>>]
    ELSE LET m == BangMatch(s)
         IN IF m.len > 0
            THEN LET r == BangScan(SubSeq(s, m.len + 1, Len(s)))
                 IN [text |-> <<" ">> \o r.text, caps |-> <<m.cap>> \o r.caps]
            ELSE LET r == BangScan(Tail(s))
                 IN [text |-> <<Head(s)>> \o r.text, caps |-> r.caps]

\* None of time_range, of external_bang (a capture of \w+ is never empty) and of
\* timeout.
NoValue == "None"
NoExternalBang == <<>>
NoTimeout == [value |-> <<>>, ms |-> FALSE]

TIME_RANGES == <<[pattern |-> <<"!", "d", "a", "y">>, range |-> "Day"],
                [pattern |-> <<"!", "w", "e", "e", "k">>, range |-> "Week"],
                [pattern |-> <<"!", "m", "o", "n", "t", "h">>, range |-> "Month"],
                [pattern |-> <<"!", "y", "e", "a", "r">>, range |-> "Year"]>>

CATEGORY_BANGS == <<[bang |-> <<"!", "i", "m", "a", "g", "e", "s">>, category |-> "images"],
                   [bang |-> <<"!", "v", "i", "d", "e", "o", "s">>, category |-> "videos"],
                   [bang |-> <<"!", "n", "e", "w", "s">>, category |-> "news"],
                   [bang |-> <<"!", "m", "u", "s", "i", "c">>, category |-> "music"],
                   [bang |-> <<"!", "f", "i", "l", "e", "s">>, category |-> "files"],
                   [bang |-> <<"!", "i", "t">>, category |-> "it"],
                   [bang |-> <<"!", "s", "c", "i", "e", "n", "c", "e">>, category |-> "science"],
                   [bang |-> <<"!", "s", "o", "c", "i", "a", "l">>, category |-> "social"],
                   [bang |-> <<"!", "m", "a", "p", "s">>, category |-> "maps"]>>

\* ParsedQuery::get_engine_bangs
ENGINE_BANGS == {[bang |-> <<"g">>, engine |-> "google"],
                 [bang |-> <<"g", "o", "o", "g", "l", "e">>, engine |-> "google"],
                 [bang |-> <<"d", "d", "g">>, engine |-> "duckduckgo"],
                 [bang |-> <<"d", "u", "c", "k", "d", "u", "c", "k", "g", "o">>, engine |-> "duckduckgo"],
                 [bang |-> <<"b", "i">>, engine |-> "bing"],
                 [bang |-> <<"b", "i", "n", "g">>, engine |-> "bing"],
                 [bang |-> <<"b", "r">>, engine |-> "brave"],
                 [bang |-> <<"b", "r", "a", "v", "e">>, engine |-> "brave"],
                 [bang |-> <<"w", "p">>, engine |-> "wikipedia"],
                 [bang |-> <<"w", "i", "k", "i", "p", "e", "d", "i", "a">>, engine |-> "wikipedia"],
                 [bang |-> <<"y", "t">>, engine |-> "youtube"],
                 [bang |-> <<"y", "o", "u", "t", "u", "b", "e">>, engine |-> "youtube"],
                 [bang |-> <<"g", "h">>, engine |-> "github"],
                 [bang |-> <<"g", "i", "t", "h", "u", "b">>, engine |-> "github"],
                 [bang |-> <<"s", "o">>, engine |-> "stackoverflow"],
                 [bang |-> <<"s", "t", "a", "c", "k", "o", "v", "e", "r", "f", "l", "o", "w">>, engine |-> "stackoverflow"],
                 [bang |-> <<"a", "r", "x">>, engine |-> "arxiv"],
                 [bang |-> <<"a", "r", "x", "i", "v">>, engine |-> "arxiv"]}

\* ParsedQuery::is_external_bang
EXTERNAL_BANGS == {<<"g">>, <<"y", "t">>, <<"w">>, <<"w", "a">>, <<"a", "m", "a", "z", "o", "n">>, <<"i", "m", "d", "b">>}

\* The time-range step: the first pattern that occurs is replaced, then break.
RECURSIVE TimeRangeStep(_, _)
TimeRangeStep(q, ranges) ==
    IF ranges = <<>> THEN [query |-> q, time_range |-> NoValue]
    ELSE IF StrContains(q, Head(ranges).pattern)
    THEN [query |-> StrReplace(q, Head(ranges).pattern, <<" ">>),
          time_range |-> Head(ranges).range]
    ELSE TimeRangeStep(q, Tail(ranges))

\* The category step: every category bang that occurs is replaced, in table order.
RECURSIVE CategoryStep(_, _, _)
CategoryStep(q, bangs, categories) ==
    IF bangs = <<>> THEN [query |-> q, categories |-> categories]
    ELSE IF StrContains(q, Head(bangs).bang)
    THEN CategoryStep(StrReplace(q, Head(bangs).bang, <<" ">>), Tail(bangs),
                      Append(categories, Head(bangs).category))
    ELSE CategoryStep(q, Tail(bangs), categories)

\* The loop over the captures of the bang expression: engines, external_bang and
\* remaining_bangs, from the state acc.
RECURSIVE ClassifyBangs(_, _)
ClassifyBangs(caps, acc) ==
    IF caps = <<>> THEN acc
    ELSE LET bang == StrToLowercase(Head(caps))
         IN ClassifyBangs(Tail(caps),
              IF \E e \in ENGINE_BANGS : e.bang = bang
              THEN [acc EXCEPT !.engines =
                        Append(@, (CHOOSE e \in ENGINE_BANGS : e.bang = bang).engine)]
              ELSE IF bang \in EXTERNAL_BANGS
              THEN [acc EXCEPT !.external_bang = bang]
              ELSE [acc EXCEPT !.remaining = Append(@, <<"!">> \o bang)])

\* format!("{} {}", bang, query) for each remaining bang in turn
RECURSIVE AddBack(_, _)
AddBack(remaining, q) ==
    IF remaining = <<>> THEN q
    ELSE AddBack(Tail(remaining), Head(remaining) \o <<" ">> \o q)

\* split_whitespace().collect().join(" ")
RECURSIVE SplitWhitespace(_)
SplitWhitespace(s) ==
    IF s = <<>> THEN <<>>
    ELSE IF IsSpace(Head(s)) THEN SplitWhitespace(Tail(s))
    ELSE LET n == RunLength(s, {c \in {s[i] : i \in 1..Len(s)} : ~IsSpace(c)})
         IN <<SubSeq(s, 1, n)>> \o SplitWhitespace(SubSeq(s, n + 1, Len(s)))

RECURSIVE Join(_)
Join(words) ==
    IF words = <<>> THEN <<>>
    ELSE IF Len(words) = 1 THEN Head(words)
    ELSE Head(words) \o <<" ">> \o Join(Tail(words))

CollapseWhitespace(s) == Join(SplitWhitespace(s))

\* The safesearch step.
SafesearchStep(q) ==
    LET strict == StrContains(q, <<"!", "s", "a", "f", "e", "s", "e", "a", "r", "c", "h">>)
        q1 == IF strict
              THEN StrReplace(q, <<"!", "s", "a", "f", "e", "s", "e", "a", "r", "c", "h">>, <<" ">>)
              ELSE q
        off == StrContains(q1, <<"!", "n", "o", "s", "a", "f", "e", "s", "e", "a", "r", "c", "h">>)
    IN [query |-> IF off
                  THEN StrReplace(q1, <<"!", "n", "o", "s", "a", "f", "e", "s", "e", "a", "r",
                                        "c", "h">>, <<" ">>)
                  ELSE q1,
        safesearch |-> IF off THEN "Off" ELSE IF strict THEN "Strict" ELSE "None"]

\* The redirect-to-first step.
RedirectStep(q) ==
    LET lone == StartsWith(q, <<"!">>) /\ (Len(q) < 2 \/ q[2] = " ")
        q1 == IF lone THEN TrimStartMatches(q, <<"!">>) ELSE q
        double == StartsWith(q1, <<"!", "!">>)
    IN [query |-> IF double THEN TrimStartMatches(q1, <<"!", "!">>) ELSE q1,
        redirect_to_first |-> lone \/ double]

\* The value of a one-element set: the steps of parse below take the result of a
\* step as the element of one.
The(S) == CHOOSE v \in S : TRUE

\* parse from the engine bangs on: q is the query text so far and acc the fields
\* extracted so far.
ParseBangs(q, acc) ==
    The({The({[acc EXCEPT !.query = CollapseWhitespace(AddBack(bangs.remaining, scan.text)),
                          !.engines = bangs.engines,
                          !.external_bang = bangs.external_bang] :
                bangs \in {ClassifyBangs(scan.caps, [engines |-> <<>>,
                                                     external_bang |-> NoExternalBang,
                                                     remaining |-> <<>>])}}) :
            scan \in {BangScan(q)}})

ParseCategories(q, acc) ==
    The({ParseBangs(cat.query, [acc EXCEPT !.categories = cat.categories]) :
            cat \in {CategoryStep(q, CATEGORY_BANGS, <<>>)}})

ParseRedirect(q, acc) ==
    The({ParseCategories(r.query, [acc EXCEPT !.redirect_to_first = r.redirect_to_first]) :
            r \in {RedirectStep(q)}})

ParseTimeRange(q, acc) ==
    The({ParseRedirect(tr.query, [acc EXCEPT !.time_range = tr.time_range]) :
            tr \in {TimeRangeStep(q, TIME_RANGES)}})

ParseSafesearch(q, acc) ==
    The({ParseTimeRange(ss.query, [acc EXCEPT !.safesearch = ss.safesearch]) :
            ss \in {SafesearchStep(q)}})

ParseTimeout(q, acc) ==
    The({ParseSafesearch(tout.text,
                         [acc EXCEPT !.timeout = IF tout.caps = <<>> THEN NoTimeout
                                                 ELSE Head(tout.caps)]) :
            tout \in {TimeoutScan(q)}})

\* ParsedQuery::parse(raw)
Parse(text) ==
    The({ParseTimeout(lang.text,
                      [query |-> <<>>, languages |-> lang.caps, categories |-> <<>>,
                       engines |-> <<>>, external_bang |-> NoExternalBang, timeout |-> NoTimeout,
                       safesearch |-> "None", time_range |-> NoValue,
                       redirect_to_first |-> FALSE]) :
            lang \in {LangScan(text)}})

InitParser ==
    /\ raw \in RAW_QUERIES
    /\ parsed = NotParsed
    /\ engine_weights = EmptyMap
    /\ EmptyContainer
    /\ added = <<>>
    /\ IdleExecutor
    /\ NoPlugins /\ NoPage /\ NoRest

ParseQuery ==
    /\ parsed = NotParsed
    /\ parsed' = Parse(raw)
    /\ UNCHANGED <<searchVars, pluginVars, pageVars, raw, restVars>>

NextParser == ParseQuery

SpecParser == InitParser /\ [][NextParser]_vars

\* parse found no modifier in the raw query.
NothingExtracted ==
    /\ parsed.languages = <<>>
    /\ parsed.timeout = NoTimeout
    /\ parsed.safesearch = "None"
    /\ parsed.time_range = NoValue
    /\ ~parsed.redirect_to_first
    /\ parsed.categories = <<>>
    /\ parsed.engines = <<>>
    /\ parsed.external_bang = NoExternalBang

\* C19: for a raw query without any recognized modifier, the clean query of
\* parse is the raw query with runs of whitespace collapsed and the ends trimmed,
\* also when the raw query holds unrecognized !tokens.
C19_CleanIsNormalizedRaw ==
    (parsed # NotParsed /\ NothingExtracted) => parsed.query = CollapseWhitespace(raw)

\* A word that is a modifier the parser recognizes.
IsModifierWord(w) ==
    \/ LangMatch(w).len = Len(w)
    \/ TimeoutMatch(w).len = Len(w)
    \/ w = <<"!", "s", "a", "f", "e", "s", "e", "a", "r", "c", "h">>
    \/ w = <<"!", "n", "o", "s", "a", "f", "e", "s", "e", "a", "r", "c", "h">>
    \/ \E n \in 1..Len(TIME_RANGES) : w = TIME_RANGES[n].pattern
    \/ \E n \in 1..Len(CATEGORY_BANGS) : w = CATEGORY_BANGS[n].bang
    \/ \E e \in ENGINE_BANGS : StrToLowercase(w) = <<"!">> \o e.bang

\* C20: for every raw query, no word of the clean query of parse is a recognized
\* modifier: a language tag, a timeout, a safesearch toggle, a time-range bang, a
\* category bang or an engine bang.
C20_NoModifierLeft ==
    parsed # NotParsed =>
        \A n \in 1..Len(SplitWhitespace(parsed.query)) :
            ~IsModifierWord(SplitWhitespace(parsed.query)[n])

---------------------------------------------------------------------------
\* The words of the raw query.
RawWords == SplitWhitespace(raw)

\* The tokens of the external allow-list that the raw query holds as a word !t.
ExternalInRaw == {t \in EXTERNAL_BANGS : \E n \in 1..Len(RawWords) : RawWords[n] = <<"!">> \o t}

\* C21: for every token t of the external allow-list (g, yt, w, wa, amazon,
\* imdb), parsing a raw query that holds the word !t sets external_bang to an
\* allow-list token of the raw query (to t when it is the only one), does not
\* add the engine that t is a shortcut of to engines, and leaves no word !t in
\* the clean query.
C21_ExternalBangOverrides ==
    parsed # NotParsed =>
        \A t \in ExternalInRaw :
            /\ parsed.external_bang \in ExternalInRaw
            /\ \A e \in ENGINE_BANGS :
                   e.bang = t => \A n \in 1..Len(parsed.engines) : parsed.engines[n] # e.engine
            /\ \A n \in 1..Len(SplitWhitespace(parsed.query)) :
                   SplitWhitespace(parsed.query)[n] # <<"!">> \o t

\* A word that is a !token the parser knows no meaning of.
IsUnknownBang(w) ==
    /\ BangMatch(w).len = Len(w)
    /\ ~IsModifierWord(w)
    /\ StrToLowercase(Tail(w)) \notin EXTERNAL_BANGS

\* A word of word characters only.
IsPlainWord(w) == w # <<>> /\ \A i \in 1..Len(w) : w[i] \in WORD_CHARS

\* C22: for every raw query, each unknown !token of the raw query is a word of
\* the clean query in its original spelling, and it stands in the clean query
\* where it stood in the raw query relative to the other words: two words of
\* the raw query that are unknown !tokens or plain words occur in the clean
\* query in the same order.
C22_UnknownBangsVerbatim ==
    parsed # NotParsed =>
        LET clean == SplitWhitespace(parsed.query)
            Kept(w) == IsUnknownBang(w) \/ IsPlainWord(w)
        IN /\ \A i \in 1..Len(RawWords) :
                  IsUnknownBang(RawWords[i]) => \E n \in 1..Len(clean) : clean[n] = RawWords[i]
           /\ \A i, j \in 1..Len(RawWords) :
                  (i < j /\ Kept(RawWords[i]) /\ Kept(RawWords[j])
                         /\ (IsUnknownBang(RawWords[i]) \/ IsUnknownBang(RawWords[j])))
                  => \E m, n \in 1..Len(clean) :
                         m < n /\ clean[m] = RawWords[i] /\ clean[n] = RawWords[j]

---------------------------------------------------------------------------
(* The infoboxes of the container. *)

MaxInfoboxAdds == 3   \* add_infobox calls explored on a container

INFOBOX_IDS == {"x", "y"}

\* InfoBox.content, an Option<String>: <<>> is None and <<text>> is Some(text).
INFOBOX_CONTENTS == {<<>>, <<<<>>>>, <<<<"a">>>>, <<<<"a", "b">>>>}

\* The infoboxes handed to add_infobox: the engine tells apart two infoboxes of
\* one id and one content.
INFOBOXES == [id : INFOBOX_IDS, content : INFOBOX_CONTENTS, engine : ENGINES]

\* content.as_ref().map(|c| c.len()).unwrap_or(0)
ContentLen(content) == IF content = <<>> THEN 0 ELSE Len(content[1])

\* boxes.iter_mut().find(|b| b.id == infobox.id): the index of the first, 0 for None
FindInfobox(boxes, id) ==
    IF \E n \in 1..Len(boxes) : boxes[n].id = id
    THEN CHOOSE n \in 1..Len(boxes) :
             boxes[n].id = id /\ \A m \in 1..(n - 1) : boxes[m].id # id
    ELSE 0

AddInfoboxTo_NotShorter(boxes, infobox) ==
    LET n == FindInfobox(boxes, infobox.id)
    IN IF n # 0
       THEN IF ContentLen(infobox.content) >= ContentLen(boxes[n].content)
            THEN [boxes EXCEPT ![n] = infobox] ELSE boxes
       ELSE Append(boxes, infobox)

\* The body of add_infobox, on the Vec behind the lock.
AddInfoboxTo(boxes, infobox) ==
    LET n == FindInfobox(boxes, infobox.id)
    IN IF n # 0
       THEN IF ContentLen(infobox.content) > ContentLen(boxes[n].content)
            THEN [boxes EXCEPT ![n] = infobox] ELSE boxes
       ELSE Append(boxes, infobox)

InitInfobox ==
    /\ engine_weights = EmptyMap
    /\ EmptyContainer
    /\ added = <<>>
    /\ IdleExecutor
    /\ NoPlugins /\ NoPage /\ NoParse
    /\ NoInfoboxes /\ NoRequest /\ NoTimeouts /\ NoRegistry

AddInfobox ==
    /\ Len(infobox_adds) < MaxInfoboxAdds
    /\ \E infobox \in INFOBOXES :
         /\ infoboxes' = AddInfoboxTo(infoboxes, infobox)
         /\ infobox_adds' = Append(infobox_adds, infobox)
    /\ UNCHANGED <<searchVars, pluginVars, pageVars, parserVars, handlerVars, timeoutVars,
                   registryVars>>

NextInfobox == AddInfobox

SpecInfobox == InitInfobox /\ [][NextInfobox]_vars

\* The add_infobox calls with the id, by their place in the history.
AddsOf(id) == {n \in 1..Len(infobox_adds) : infobox_adds[n].id = id}

\* The first call with the id whose content is as long as any added with it.
FirstLongest(id) ==
    CHOOSE n \in AddsOf(id) :
        /\ \A m \in AddsOf(id) :
               ContentLen(infobox_adds[m].content) <= ContentLen(infobox_adds[n].content)
        /\ \A m \in AddsOf(id) :
               m < n => ContentLen(infobox_adds[m].content) < ContentLen(infobox_adds[n].content)

\* C23: after any sequence of add_infobox calls the container holds at most one
\* infobox per id and one for every id added; the stored one has the longest
\* content of those added with its id, missing content counting as length 0,
\* and it is the first of that length, an incoming infobox replacing the stored
\* one exactly when its content is strictly longer.
C23_InfoboxLongestContent ==
    /\ \A m, n \in 1..Len(infoboxes) : infoboxes[m].id = infoboxes[n].id => m = n
    /\ \A id \in INFOBOX_IDS :
           AddsOf(id) # {} =>
               \E n \in 1..Len(infoboxes) : infoboxes[n] = infobox_adds[FirstLongest(id)]
    /\ \A n \in 1..Len(infoboxes) : AddsOf(infoboxes[n].id) # {}

\* An id was added three times: without content, with a longer content that
\* replaced it, and with a content of that same length that did not.
C23_Witness ==
    /\ Len(infobox_adds) = 3
    /\ \A n \in 1..3 : infobox_adds[n].id = "x"
    /\ infobox_adds[1].content = <<>>
    /\ infobox_adds[2].content = <<<<"a">>>>
    /\ infobox_adds[3].content = <<<<"b">>>> \/ infobox_adds[3].content = <<<<"a">>>>
    /\ infobox_adds[3].engine # infobox_adds[2].engine
    /\ infoboxes = <<infobox_adds[2]>>

---------------------------------------------------------------------------
(* The search handler of the HTTP layer: parse, execute, respond. *)

\* The q parameter of the requests explored: blank, a plain word, a calculation,
\* a language tag alone and an external bang.
HANDLER_QUERIES == {<<" ">>, <<"a">>, <<"=", "2", "+", "2", "*", "3">>, <<":", "e", "n">>,
                    <<"!", "w", " ", "a">>}

\* A plugin, by what it does with the raw query of the request: the bool of
\* matches_query, whether process returns an answer, and info().default_on.
ANSWERING == [matches : BOOLEAN, answers : BOOLEAN, default_on : BOOLEAN]

\* The Vec PluginRegistry::register builds from the plugins b.
RegisteredAnswering(b) ==
    [i \in DOMAIN b |-> [id |-> i, matches |-> b[i].matches, answers |-> b[i].answers,
                         default_on |-> b[i].default_on]]

\* PluginRegistry::try_answer: the answer of the first enabled plugin that
\* matches the query and whose process returns one.
RECURSIVE TryAnswer(_)
TryAnswer(ps) ==
    IF ps = <<>> THEN NoAnswer
    ELSE IF Head(ps).matches /\ Head(ps).answers THEN [plugin |-> Head(ps).id]
    ELSE TryAnswer(Tail(ps))

\* The name of an external bang of the parser, as the executor matches it.
BangName(bang) ==
    CASE bang = <<"g">> -> "g"
      [] bang = <<"y", "t">> -> "yt"
      [] bang = <<"w">> -> "w"
      [] bang = <<"w", "a">> -> "wa"
      [] bang = <<"a", "m", "a", "z", "o", "n">> -> "amazon"
      [] bang = <<"i", "m", "d", "b">> -> "imdb"
      [] OTHER -> NoBang

\* The engine refs of the handler for no engines and no categories parameter:
\* registry.get_by_category("general"), each as EngineRef::new(name, "general").
DefaultRefs == <<[name |-> "google", category |-> "general"]>>

\* SearchQuery::from_parsed(parsed, default_engines)
FromParsed(p, default_engines) ==
    [query |-> p.query,
     external_bang |-> BangName(p.external_bang),
     engine_refs |-> IF p.engines # <<>>
                     THEN [i \in DOMAIN p.engines |-> [name |-> p.engines[i], category |-> "general"]]
                     ELSE default_engines]

InitHandler ==
    /\ raw \in HANDLER_QUERIES
    /\ parsed = NotParsed
    /\ \E k \in 0..MaxPlugins : \E b \in [1..k -> ANSWERING] : plugins = RegisteredAnswering(b)
    /\ enabled = {plugins[i].id : i \in {j \in 1..Len(plugins) : plugins[j].default_on}}
    /\ calls = <<>>
    /\ hook_result = NotRun
    /\ registry = [google |-> [weight |-> 1], bing |-> [weight |-> 1]]
    /\ query = [query |-> <<>>, external_bang |-> NoBang, engine_refs |-> <<>>]
    /\ engine_results = [e \in ENGINES |-> <<URL_A1>>]
    /\ exec_pc = "idle"
    /\ tasks = <<>>
    /\ engine_weights = EmptyMap
    /\ EmptyContainer
    /\ added = <<>>
    /\ NoPage /\ NoInfoboxes /\ NoTimeouts /\ NoRegistry
    /\ http_response = [pc |-> "received", kind |-> "none", answer |-> NoAnswer]

\* search, a blank q: redirect to the home page.
HandleBlank ==
    /\ http_response.pc = "received"
    /\ IsEmpty(raw)
    /\ http_response' = [pc |-> "done", kind |-> "redirect_home", answer |-> NoAnswer]
    /\ UNCHANGED <<searchVars, pluginVars, pageVars, parserVars, infoboxVars, timeoutVars,
                   registryVars>>

\* search, otherwise: parse q, build the engine refs and the SearchQuery, and
\* call state.search.execute.
HandleSearch ==
    /\ http_response.pc = "received"
    /\ ~IsEmpty(raw)
    /\ parsed' = Parse(raw)
    /\ query' = FromParsed(parsed', DefaultRefs)
    /\ exec_pc' = "start"
    /\ http_response' = [http_response EXCEPT !.pc = "executing"]
    /\ UNCHANGED <<engine_weights, containerVars, ordered, added, registry, engine_results,
                   tasks, raw, pluginVars, pageVars, infoboxVars, timeoutVars, registryVars>>

\* search, after execute returned: the redirect of the container, or its results.
HandleRespond ==
    /\ http_response.pc = "executing"
    /\ exec_pc = "returned"
    /\ http_response' = [pc |-> "done",
                    kind |-> IF redirect_url # NoRedirect THEN "redirect" ELSE "results",
                    answer |-> NoAnswer]
    /\ UNCHANGED <<searchVars, pluginVars, pageVars, parserVars, infoboxVars, timeoutVars,
                   registryVars>>

NextHandler ==
    \/ HandleBlank
    \/ HandleSearch
    \/ ExecuteRedirect
    \/ ExecuteEmpty
    \/ ExecuteDispatch
    \/ \E i \in 1..Len(tasks) : SearchEngine(i)
    \/ ExecuteReturn
    \/ HandleRespond

SpecHandler == InitHandler /\ [][NextHandler]_vars

\* C24: when an enabled plugin matches the raw query of a search request and
\* produces an answer, the handler has consulted the plugins before it executes
\* the search, it dispatches no engine, and the response it returns carries
\* that answer.
C24_InstantAnswerShortCircuit ==
    (http_response.pc \in {"executing", "done"} /\ ~IsEmpty(raw)
        /\ TryAnswer(EnabledPlugins(plugins)) # NoAnswer)
    => /\ hook_result.hook = "try_answer"
       /\ tasks = <<>>
       /\ exec_pc = "idle"
       /\ http_response.pc = "done" => http_response.answer = TryAnswer(EnabledPlugins(plugins))

---------------------------------------------------------------------------
(* Termination of execute *)

\* One execute call on one registry and one set of engine responses, for every
\* query text, bang and list of engine refs.
InitLive ==
    /\ Init
    /\ registry = [google |-> [weight |-> 1], bing |-> [weight |-> 1]]
    /\ engine_results = [e \in ENGINES |-> <<URL_A1>>]

\* A step of execute itself.
ExecuteStep == ExecuteRedirect \/ ExecuteEmpty \/ ExecuteDispatch \/ ExecuteReturn

\* A step of one of the futures: the runtime polls a future that can proceed,
\* and an HTTP call under way responds, fails or reaches its deadline.
FutureStep == \E i \in 1..Len(tasks) : SearchEngine(i)

\* The execute call alone, up to its return.
NextLive == ExecuteStep \/ FutureStep

SpecLive == InitLive /\ [][NextLive]_vars /\ WF_vars(ExecuteStep) /\ WF_vars(FutureStep)

---------------------------------------------------------------------------
(* add_result with results that carry every field *)

MERGE_CONTENTS == {NoContent, "c1", "c2"}

\* A Result as an engine fills it: the title, category, result type and
\* thumbnail are those the engine gives its results.
FullResult(url, engine, content) ==
    [url |-> url,
     title |-> IF engine = "google" THEN "title G" ELSE "title B",
     content |-> content,
     engine |-> engine,
     engines |-> {engine},
     positions |-> <<1>>,
     score |-> 0,
     category |-> IF engine = "google" THEN "general" ELSE NoCategory,
     metadata |-> [thumbnail |-> IF engine = "google" THEN "None" ELSE "thumb"],
     result_type |-> IF engine = "google" THEN "Default" ELSE "Image"]

AddFullResult ==
    /\ Len(added) < MaxAdds
    /\ \E url \in URLS, engine \in ENGINES, content \in MERGE_CONTENTS :
         LET result == FullResult(url, engine, content)
         IN /\ results_map' = MapAdd(results_map, result)
            /\ inserted' = InsertedAdd(inserted, results_map, result)
            /\ added' = Append(added, result)
    /\ UNCHANGED <<engine_weights, unresponsive, timings, redirect_url, ordered,
                   registry, query, engine_results, exec_pc, tasks>>
    /\ UNCHANGED frontVars

InitMerge ==
    /\ engine_weights = EmptyMap
    /\ EmptyContainer
    /\ added = <<>>
    /\ IdleExecutor
    /\ NoPlugins /\ NoPage /\ NoParse /\ NoRest

NextMerge == AddFullResult

SpecMerge == InitMerge /\ [][NextMerge]_vars

\* C26: when add_result hits an existing dedup key, the url, title, engine,
\* category, result_type and metadata of the stored record stay as they were;
\* its content becomes the incoming content when it was absent and the incoming
\* result has one, and stays as it was otherwise; the records of the other keys
\* do not change.
C26_MergeFrame ==
    [][LET incoming == added'[Len(added')]
           key == UrlHash(incoming.url)
       IN key \in DOMAIN results_map =>
              /\ DOMAIN results_map' = DOMAIN results_map
              /\ results_map'[key].url = results_map[key].url
              /\ results_map'[key].title = results_map[key].title
              /\ results_map'[key].engine = results_map[key].engine
              /\ results_map'[key].category = results_map[key].category
              /\ results_map'[key].result_type = results_map[key].result_type
              /\ results_map'[key].metadata = results_map[key].metadata
              /\ results_map'[key].content =
                     IF results_map[key].content = NoContent /\ incoming.content # NoContent
                     THEN incoming.content ELSE results_map[key].content
              /\ \A k \in DOMAIN results_map \ {key} : results_map'[k] = results_map[k]]_vars

\* Three results of one dedup key: the first without content, the second, of
\* another engine and another url, with content, the third with another content.
\* The record keeps the fields of the first and the content of the second.
C26_Witness ==
    /\ Len(added) = 3
    /\ added[1] = FullResult(URL_A1, "google", NoContent)
    /\ added[2] = FullResult(URL_A2, "bing", "c1")
    /\ added[3] = FullResult(URL_A2, "bing", "c2")
    /\ DOMAIN results_map = {UrlHash(URL_A1)}
    /\ results_map[UrlHash(URL_A1)].content = "c1"
    /\ results_map[UrlHash(URL_A1)].title = "title G"
    /\ results_map[UrlHash(URL_A1)].url = URL_A1

---------------------------------------------------------------------------
\* The futures of the engine name that ended in a failed request().
BuildFailedTasks(name) ==
    {i \in 1..Len(tasks) : tasks[i].name = name /\ tasks[i].outcome = "build_failed"}

\* The Unknown entries of the engine name in unresponsive_engines.
UnknownEntries(name) ==
    {n \in 1..Len(unresponsive) :
        unresponsive[n].name = name /\ unresponsive[n].error = "Unknown"}

\* C27: when engine.request(params) fails for an engine, the future of that
\* engine had made no HTTP call, it completes in that step and never runs
\* again, so that response() is never called for it; the step appends one
\* UnresponsiveEngine(name, Unknown) and nothing else, stores no result and no
\* timing, and leaves the futures of the other engines as they are.  Every
\* failed build accounts for exactly one Unknown entry.
C27_BuildFailure ==
    /\ [][\A i \in 1..Len(tasks) :
            /\ (tasks[i].outcome # "build_failed" /\ tasks'[i].outcome = "build_failed") =>
                   /\ tasks[i].pc = "created"
                   /\ tasks'[i].pc = "done"
                   /\ unresponsive' = Append(unresponsive,
                                             [name |-> tasks[i].name, error |-> "Unknown"])
                   /\ UNCHANGED <<results_map, inserted, timings>>
                   /\ \A j \in 1..Len(tasks) : j # i => tasks'[j] = tasks[j]
            /\ tasks[i].outcome = "build_failed" => tasks'[i] = tasks[i]]_vars
    /\ [](\A name \in ENGINES :
            Cardinality(UnknownEntries(name)) = Cardinality(BuildFailedTasks(name)))

\* execute returned after the request of google could not be built and bing
\* answered: one Unknown entry, and the results and the timing of bing.
C27_Witness ==
    /\ exec_pc = "returned"
    /\ Len(tasks) = 2
    /\ tasks[1].name = "google" /\ tasks[1].outcome = "build_failed"
    /\ tasks[2].name = "bing" /\ tasks[2].outcome = "success"
    /\ unresponsive = <<[name |-> "google", error |-> "Unknown"]>>
    /\ Len(timings) = 1 /\ timings[1].engine = "bing"
    /\ results_map # EmptyMap

---------------------------------------------------------------------------
(* The deadline of a search_engine future.  Seconds are f64 in the code; the  *)
(* model has whole seconds.  An Option is <<>> for None and <<x>> for Some(x). *)

DefaultTimeout == 5    \* Search::new: default_timeout
MaxTimeout == 30       \* Search::new: max_timeout

\* query.timeout_limit: the parser's timeout expression yields no sign.
QUERY_TIMEOUTS == {<<>>, <<0>>, <<3>>, <<30>>, <<31>>, <<40>>}
\* EngineConfig.timeout, as the settings file gives it.
CONFIG_TIMEOUTS == {<<>>, <<-1>>, <<2>>, <<30>>, <<45>>}
\* Engine::timeout() of the registered engine.
ENGINE_TIMEOUTS == {<<5>>, <<10>>}

Min(a, b) == IF a <= b THEN a ELSE b

\* Option::unwrap_or
UnwrapOr(opt, default) == IF opt = <<>> THEN default ELSE opt[1]

\* EngineRegistry::get_timeout(name, default): config is configs.get(name).timeout
\* and engine the timeout() of engines.get(name).
GetTimeout(config, engine, default) ==
    IF config # <<>> THEN config[1] ELSE UnwrapOr(engine, default)

\* Duration::from_secs_f64: panics on a negative value.
DurationFromSecs(secs) ==
    IF secs < 0 THEN [computed |-> TRUE, panic |-> TRUE, secs |-> 0]
    ELSE [computed |-> TRUE, panic |-> FALSE, secs |-> secs]

\* The engine_timeout of search_engine.
EngineTimeout(args) ==
    DurationFromSecs(Min(UnwrapOr(args.timeout_limit,
                                  GetTimeout(args.config, args.engine, DefaultTimeout)),
                         MaxTimeout))

InitTimeout ==
    /\ timeout_args \in [timeout_limit : QUERY_TIMEOUTS, config : CONFIG_TIMEOUTS,
                         engine : ENGINE_TIMEOUTS]
    /\ engine_timeout = [computed |-> FALSE, panic |-> FALSE, secs |-> 0]
    /\ engine_weights = EmptyMap
    /\ EmptyContainer
    /\ added = <<>>
    /\ IdleExecutor
    /\ NoPlugins /\ NoPage /\ NoParse
    /\ NoInfoboxes /\ NoRequest /\ NoRegistry

\* search_engine, up to the timeout it hands to tokio::time::timeout
ComputeTimeout ==
    /\ ~engine_timeout.computed
    /\ engine_timeout' = EngineTimeout(timeout_args)
    /\ UNCHANGED <<searchVars, pluginVars, pageVars, parserVars, infoboxVars, handlerVars,
                   timeout_args, registryVars>>

NextTimeout == ComputeTimeout

SpecTimeout == InitTimeout /\ [][NextTimeout]_vars

\* C28: for every resolved engine, the deadline of its HTTP call is the smaller
\* of max_timeout and the query's timeout_limit when it is set, otherwise the
\* config override of the engine when there is one, otherwise the engine's own
\* default; a deadline is computed, and it is never above max_timeout.
C28_EffectiveDeadline ==
    engine_timeout.computed =>
        LET base == IF timeout_args.timeout_limit # <<>> THEN timeout_args.timeout_limit[1]
                    ELSE IF timeout_args.config # <<>> THEN timeout_args.config[1]
                    ELSE timeout_args.engine[1]
        IN /\ ~engine_timeout.panic
           /\ engine_timeout.secs = (IF base <= MaxTimeout THEN base ELSE MaxTimeout)
           /\ engine_timeout.secs <= MaxTimeout

---------------------------------------------------------------------------
\* The engine refs of the query with the name.
RefsOf(name) == {i \in 1..Len(query.engine_refs) : query.engine_refs[i].name = name}

\* The names of the engine refs that the registry does not hold.
UnresolvedNames ==
    {query.engine_refs[i].name : i \in 1..Len(query.engine_refs)} \ DOMAIN registry

\* C29: after execute returns for a non-empty query without external bang,
\* every engine ref whose name is registered has contributed exactly one record,
\* a Timing when its future succeeded and an UnresponsiveEngine when it failed,
\* and the refs whose name is not registered have contributed none: the timings
\* and the unresponsive entries together are as many as the resolved refs.
C29_OneOutcomePerRef ==
    (exec_pc = "returned" /\ ~IsEmpty(query.query) /\ query.external_bang = NoBang) =>
        /\ \A name \in DOMAIN registry :
             /\ Cardinality(TimingsOf(name)) + Cardinality(EntriesOf(name))
                    = Cardinality(RefsOf(name))
             /\ Cardinality(TimingsOf(name))
                    = Cardinality({i \in Succeeded : tasks[i].name = name})
             /\ Cardinality(EntriesOf(name))
                    = Cardinality({i \in Failed : tasks[i].name = name})
        /\ Succeeded \cap Failed = {}
        /\ \A name \in UnresolvedNames : TimingsOf(name) = {} /\ EntriesOf(name) = {}
        /\ Len(timings) + Len(unresponsive)
               = Cardinality({i \in 1..Len(query.engine_refs) :
                                 RegistryGet(query.engine_refs[i].name)})

\* execute returned for the refs google and an engine that is not loaded:
\* google succeeded and left one timing, and nothing else was recorded.
C29_Witness ==
    /\ exec_pc = "returned"
    /\ query.external_bang = NoBang
    /\ ~IsEmpty(query.query)
    /\ Len(query.engine_refs) = 2
    /\ query.engine_refs[1].name = "google"
    /\ query.engine_refs[2].name = UNLOADED
    /\ Len(timings) = 1 /\ timings[1].engine = "google"
    /\ unresponsive = <<>>

---------------------------------------------------------------------------
(* The engine registry as the loader fills it *)

MaxRegistrations == 3  \* enabled engine entries of the settings

\* The engines create_engine builds, by name() and categories().
ENGINE_TYPES == {[name |-> "google", categories |-> <<"general", "web">>],
                 [name |-> "google_images", categories |-> <<"images">>],
                 [name |-> "bing", categories |-> <<"general", "web">>]}

CATEGORIES == {"general", "web", "images", "news"}

\* self.categories.entry(category).or_default().push(name), for each category
RECURSIVE PushCategories(_, _, _)
PushCategories(map, cats, name) ==
    IF cats = <<>> THEN map
    ELSE PushCategories(
             [c \in DOMAIN map \cup {Head(cats)} |->
                 IF c = Head(cats)
                 THEN Append(IF c \in DOMAIN map THEN map[c] ELSE <<>>, name)
                 ELSE map[c]],
             Tail(cats), name)

\* self.engines.insert(name, engine): instance tells the Arc of one register
\* call from that of another.
InsertEngine(map, name, instance) ==
    [n \in DOMAIN map \cup {name} |->
        IF n = name THEN [name |-> name, instance |-> instance] ELSE map[n]]

\* EngineRegistry::get_by_category
GetByCategory(category) ==
    IF category \in DOMAIN registry_categories
    THEN LET names == SelectSeq(registry_categories[category],
                                LAMBDA n : n \in DOMAIN registry_engines)
         IN [i \in DOMAIN names |-> registry_engines[names[i]]]
    ELSE <<>>

\* The SearchQuery of Search::search_category(query, category, page).
CategoryQuery(text, category) ==
    [query |-> text,
     external_bang |-> NoBang,
     engine_refs |-> [i \in DOMAIN GetByCategory(category) |->
                         [name |-> GetByCategory(category)[i].name, category |-> category]]]

InitRegistry ==
    /\ NoRegistry
    /\ engine_weights = EmptyMap
    /\ EmptyContainer
    /\ added = <<>>
    /\ IdleExecutor
    /\ NoPlugins /\ NoPage /\ NoParse
    /\ NoInfoboxes /\ NoRequest /\ NoTimeouts

\* EngineLoader::load, one enabled entry of the settings: create_engine and
\* EngineRegistry::register.
Register ==
    /\ Len(registrations) < MaxRegistrations
    /\ query.engine_refs = <<>>
    /\ \E engine \in ENGINE_TYPES :
         /\ registry_categories' =
                PushCategories(registry_categories, engine.categories, engine.name)
         /\ registry_engines' =
                InsertEngine(registry_engines, engine.name, Len(registrations) + 1)
         /\ registrations' = Append(registrations, engine)
    /\ UNCHANGED <<searchVars, pluginVars, pageVars, parserVars, infoboxVars, handlerVars,
                   timeoutVars>>

\* Search::search_category, up to the SearchQuery it hands to execute.
SearchCategory ==
    /\ query.engine_refs = <<>>
    /\ \E category \in CATEGORIES :
         /\ GetByCategory(category) # <<>>
         /\ query' = CategoryQuery(<<"a">>, category)
    /\ UNCHANGED <<engine_weights, containerVars, ordered, added, registry, engine_results,
                   exec_pc, tasks, frontVars>>

NextRegistry == Register \/ SearchCategory

SpecRegistry == InitRegistry /\ [][NextRegistry]_vars

\* C30: after any sequence of register calls, an engine name registered more
\* than once included, get_by_category(c) holds each registered engine at most
\* once for every category c, and the engine refs search_category builds name
\* no engine twice.
C30_FanOutUnique ==
    /\ \A c \in CATEGORIES :
         \A i, j \in 1..Len(GetByCategory(c)) :
             GetByCategory(c)[i] = GetByCategory(c)[j] => i = j
    /\ \A i, j \in 1..Len(query.engine_refs) :
         query.engine_refs[i].name = query.engine_refs[j].name => i = j

====
